---- MODULE Spec2Model ----
(***************************************************************************)
(* Turn-loop controller of the agent SDK (createAgent / createSmartAgent), *)
(* the token estimator and the context summarization node, as a state      *)
(* machine.  One action per stretch of code between two awaits.            *)
(***************************************************************************)
EXTENDS Integers, Sequences, FiniteSets, TLC

VARIABLES
    opts,            \* AgentOptions given to createAgent / createSmartAgent
    config,          \* InvokeConfig of the running invoke
    pc,              \* position of runLoop
    messages,        \* state.messages
    toolCallCount,   \* state.toolCallCount
    ctx,             \* state.ctx (the markers the controller reads and writes)
    summaries,       \* state.summaries
    guardrailResult, \* state.guardrailResult (number of merged incidents)
    iterations,      \* runLoop: let iterations
    resumeStage,     \* runLoop: let resumeStage
    pausedStage,     \* runLoop: let pausedStage
    cancel,          \* the three cancellation causes (abort signal, token, deadline)
    smart,           \* createSmartAgent.invoke: position and locals of the outer loop
    env,             \* what is left of the bounded choices of the collaborators
    obs,             \* observations of the run (history variables)
    toolHistory,     \* state.toolHistory
    toolHistoryArchived, \* state.toolHistoryArchived
    pendingApprovals,    \* state.pendingApprovals
    call             \* a direct call of a node or helper: position, locals and result

vars == <<opts, config, pc, messages, toolCallCount, ctx, summaries, guardrailResult,
          iterations, resumeStage, pausedStage, cancel, smart, env, obs, toolHistory,
          toolHistoryArchived, pendingApprovals, call>>

\* the fields of the state that the turn loop carries along, and the direct call
Stores == <<toolHistory, toolHistoryArchived, pendingApprovals, call>>

-----------------------------------------------------------------------------
(* Bounds of the model *)

\* characters of a user message too large for a configured ceiling
BigChars == 400
\* characters of a user message too large for the default ceiling
HugeChars == 200100
\* characters of a text written outside ASCII
CjkChars == 5
\* the tool-dispatch node raises toolCallCount at most this often in one run
MaxIncr == 2
\* non-blocking guardrail incidents in one run
MaxWarns == 1
\* a cancellation cause fires during the run no later than this iteration
MaxFireIter == 1

-----------------------------------------------------------------------------
(* Program constants *)

DefaultMaxToolCalls == 50
InfinityIterationLimit == 100
IterationFactor == 3
IterationSlack == 10
IterationFloor == 40
DefaultMaxTokens == 50000
SmartDefaultMaxToolCalls == 10
SmartIterationFactor == 3
SmartIterationSlack == 5
SmartIterationFloor == 30
MessageOverhead == 4

-----------------------------------------------------------------------------
(* Arithmetic *)

Max(a, b) == IF a >= b THEN a ELSE b

CeilDiv(a, b) == (a + b - 1) \div b

\* the sum of s[lo..hi], by halves
RECURSIVE SumRange(_, _, _)
SumRange(s, lo, hi) ==
    IF lo > hi THEN 0
    ELSE IF lo = hi THEN s[lo]
    ELSE LET mid == (lo + hi) \div 2 IN SumRange(s, lo, mid) + SumRange(s, mid + 1, hi)

SumSeq(s) == SumRange(s, 1, Len(s))

-----------------------------------------------------------------------------
(* Limits: maxToolCalls is undefined, a finite number or Infinity *)

Undefined == [kind |-> "undefined", n |-> 0]
Infinity == [kind |-> "infinity", n |-> 0]
Finite(n) == [kind |-> "finite", n |-> n]

\* { ...(opts.limits || {}), ...(config?.limits || {}) }.maxToolCalls
MergedLimit(o, c) == IF c.maxToolCalls.kind # "undefined" THEN c.maxToolCalls ELSE o.maxToolCalls

\* maxToolCalls of runLoop: 50 when the merged limit is undefined
MaxToolCalls(o, c) ==
    IF MergedLimit(o, c).kind = "undefined" THEN Finite(DefaultMaxToolCalls) ELSE MergedLimit(o, c)

\* the limit comparison with > in place of >=
ReachedLimitStrict(count, lim) == lim.kind = "finite" /\ count > lim.n

\* toolCallCount >= maxToolCalls
ReachedLimit(count, lim) == lim.kind = "finite" /\ count >= lim.n

\* the iteration limit computed from the agent options alone, the invoke config unmerged
IterationLimitUnmerged(o, c) ==
    IF o.maxToolCalls.kind = "infinity" THEN InfinityIterationLimit
    ELSE Max((IF o.maxToolCalls.kind = "undefined" THEN DefaultMaxToolCalls
              ELSE o.maxToolCalls.n) * IterationFactor + IterationSlack, IterationFloor)

\* iterationLimit of runLoop
IterationLimit(o, c) ==
    IF MaxToolCalls(o, c).kind = "infinity" THEN InfinityIterationLimit
    ELSE Max(MaxToolCalls(o, c).n * IterationFactor + IterationSlack, IterationFloor)

-----------------------------------------------------------------------------
(* Messages *)

NoticeText == "[System Notice] Tool-call limit reached. Produce the best possible final answer using the available context and prior tool outputs. Do not call any more tools."

ForceText == "A structured output schema is active.\nYou MUST now call tool 'response' with the final JSON object that matches the schema.\nDo not write the JSON in the assistant message.\nCall 'response' exactly once, then stop."

RequestBlockedText == "Request blocked by guardrail policy."
ResponseBlockedText == "Response blocked by guardrail policy."
Placeholder == "SUMMARIZED"
SummaryCallText == "Context limit reached. Summarizing conversation history to reduce token usage."

\* a message: role, name ("" when absent), content, tool_calls, tool_call_id (0 when
\* absent), meta (the guardrail annotation of metadata, "" when absent)
Msg(role, name, content, tcs, tcid) ==
    [role |-> role, name |-> name, content |-> content, tool_calls |-> tcs,
     tool_call_id |-> tcid, meta |-> ""]

ToolCall(id, name) == [id |-> id, name |-> name, arguments |-> "{}"]

UserMsg(content) == Msg("user", "", content, <<>>, 0)
SystemMsg(content) == Msg("system", "", content, <<>>, 0)
AssistantText(content) == Msg("assistant", "", content, <<>>, 0)
AssistantCalls(content, tcs) == Msg("assistant", "", content, tcs, 0)
ToolMsg(id, name, content) == Msg("tool", name, content, <<>>, id)

\* characters of a text: the payload tags stand for texts of the given sizes
Chars(text) ==
    CASE text = "<big>" -> BigChars
      [] text = "<huge>" -> HugeChars
      [] text = "<cjk>" -> CjkChars
      [] OTHER -> Len(text)

\* the characters of a text outside ASCII: all of those of the text tagged <cjk>
NonAsciiChars(text) == IF text = "<cjk>" THEN CjkChars ELSE 0

LastMsg(msgs) == msgs[Len(msgs)]

\* the ids of a list of tool calls
CallIds(tcs) == {tcs[i].id : i \in 1..Len(tcs)}

\* Array.isArray(lastMsg?.tool_calls) ? lastMsg.tool_calls : []
LastToolCalls(msgs) == IF msgs = <<>> THEN <<>> ELSE LastMsg(msgs).tool_calls

-----------------------------------------------------------------------------
(* Token estimator *)

\* countApproxTokens of a text with the given numbers of ASCII and other characters:
\* Math.ceil(asciiCount / 4 + nonAsciiCount / 1.5)
countApproxTokens(ascii, nonAscii) ==
    IF ascii + nonAscii = 0 THEN 0 ELSE CeilDiv(3 * ascii + 8 * nonAscii, 12)

\* the parts extractMessageText pushes for one tool call: function.name, function.arguments
ToolCallParts(tc) == <<Chars(tc.name), Chars(tc.arguments)>>

RECURSIVE ToolCallsParts(_)
ToolCallsParts(tcs) ==
    IF tcs = <<>> THEN <<>> ELSE ToolCallParts(Head(tcs)) \o ToolCallsParts(Tail(tcs))

\* lengths of the parts of extractMessageText(m): role, name, content, tool calls
MessageParts(m) ==
    <<Chars(m.role)>> \o (IF m.name # "" THEN <<Chars(m.name)>> ELSE <<>>)
        \o <<Chars(m.content)>> \o ToolCallsParts(m.tool_calls)

\* length of parts.join("\n")
JoinedChars(parts) == IF parts = <<>> THEN 0 ELSE SumSeq(parts) + (Len(parts) - 1)

extractMessageText(m) == JoinedChars(MessageParts(m))

\* the characters outside ASCII of extractMessageText(m): those of the content
NonAsciiOf(m) == NonAsciiChars(m.content)

\* the estimate taken from the last message alone
countMessagesTokensOfLast(msgs) ==
    IF msgs = <<>> THEN 0
    ELSE countApproxTokens(extractMessageText(LastMsg(msgs)) - NonAsciiOf(LastMsg(msgs)),
                           NonAsciiOf(LastMsg(msgs)))
            + Len(msgs) * MessageOverhead

countMessagesTokens(msgs) ==
    IF msgs = <<>> THEN 0
    ELSE LET all == JoinedChars([i \in 1..Len(msgs) |-> extractMessageText(msgs[i])])
             nonAscii == SumSeq([i \in 1..Len(msgs) |-> NonAsciiOf(msgs[i])])
         IN  countApproxTokens(all - nonAscii, nonAscii) + Len(msgs) * MessageOverhead

-----------------------------------------------------------------------------
(* Options, invoke configuration and run state *)

\* opts.summarization: undefined, false, or an object {enable, maxTokens}
\* (maxTokens 0 stands for an absent maxTokens)
SumUndefined == [kind |-> "undefined", enable |-> TRUE, maxTokens |-> 0]
SumFalse == [kind |-> "false", enable |-> FALSE, maxTokens |-> 0]
SumObject(enable, maxTokens) == [kind |-> "object", enable |-> enable, maxTokens |-> maxTokens]

\* maxTok of the budget gate of runLoop
MaxTok(o) ==
    IF o.summarization.kind = "object" /\ o.summarization.maxTokens # 0
    THEN o.summarization.maxTokens ELSE DefaultMaxTokens

NoCancelled == [stage |-> "", reason |-> ""]
NoPaused == [stage |-> "", iteration |-> 0]
NoStore == [lastRequestLength |-> -1, lastResponseLength |-> -1]

\* the ctx of a fresh input
EmptyCtx ==
    [cancelled |-> NoCancelled, paused |-> NoPaused, resumeStage |-> "",
     needsSummarization |-> FALSE, finalizedDueToToolLimit |-> FALSE,
     awaitingApproval |-> FALSE, finalizedDueToStructuredOutput |-> FALSE,
     structuredOutputForceFinalize |-> FALSE, guardrailBlocked |-> "",
     guardrailReason |-> "", guardrailStore |-> NoStore, restoredFromSnapshot |-> FALSE]

\* the resume marker dropped without being read
ResumeStageIgnored(c) == ""

\* resumeStage of runLoop, read from ctx.__resumeStage on entry
ResumeStageOf(c) == IF c.resumeStage = "tools" THEN "tools" ELSE ""

NoCancel == [signal |-> FALSE, token |-> FALSE, deadline |-> FALSE]

\* isCancelled(): the first cause checked wins
isCancelled(c) == c.signal \/ c.token \/ c.deadline

CancelReason(c) ==
    IF c.signal THEN "aborted" ELSE IF c.token THEN "cancelled" ELSE "timeout"

-----------------------------------------------------------------------------
(* runLoop of createAgent, as functions of the run state s *)

\* the run state as one record
Cur ==
    [messages |-> messages, toolCallCount |-> toolCallCount, ctx |-> ctx,
     guardrailResult |-> guardrailResult, pc |-> pc, iterations |-> iterations,
     resumeStage |-> resumeStage, pausedStage |-> pausedStage, env |-> env, obs |-> obs]

Become(s) ==
    /\ messages' = s.messages
    /\ toolCallCount' = s.toolCallCount
    /\ ctx' = s.ctx
    /\ guardrailResult' = s.guardrailResult
    /\ pc' = s.pc
    /\ iterations' = s.iterations
    /\ resumeStage' = s.resumeStage
    /\ pausedStage' = s.pausedStage
    /\ env' = s.env
    /\ obs' = s.obs

\* break: the while loop is left
Break(s, cause) ==
    [s EXCEPT !.pc = "after_loop", !.obs.stop = IF @ = "" THEN cause ELSE @]

\* cancelIfRequested(stage), when a cause has fired
Cancelled(s, stage) ==
    Break([s EXCEPT !.ctx.cancelled = [stage |-> stage, reason |-> CancelReason(cancel)]],
          "cancelled")

\* checkpointIfRequested(stage): r is what onStateChange(state) does ("true", "false",
\* "throw"); a throwing callback counts as false
PauseRequested(r) == config.onStateChange /\ r = "true"

Paused(s, stage) ==
    [s EXCEPT !.ctx.paused = [stage |-> stage, iteration |-> s.iterations],
              !.pausedStage = stage]

\* await agentCore(state): the reasoning engine is invoked on s.messages
CallAgentCore(s, at) ==
    [s EXCEPT !.pc = at,
              !.obs.engineCalls = @ + 1,
              !.obs.engineOverBudget = @ \/ countMessagesTokens(s.messages) > MaxTok(opts),
              !.obs.engineAfterStop = @ \/ s.obs.stop # ""]

\* await toolsNode(state): the last message's tool calls are handed to the dispatch node
CallToolsNode(s, at) ==
    [s EXCEPT !.pc = at,
              !.obs.dispatches = @ + 1,
              !.obs.toolsAfterStop = @ \/ s.obs.stop # ""]

\* the finalize step without its notice
toolLimitFinalizeSilent(s) ==
    [s EXCEPT !.ctx.finalizedDueToToolLimit = TRUE]

\* the finalize step putting its notice in the place of the last message
toolLimitFinalizeReplacing(s) ==
    [s EXCEPT !.messages = Append(SubSeq(@, 1, Len(@) - 1), UserMsg(NoticeText)),
              !.ctx.finalizedDueToToolLimit = TRUE,
              !.obs.notices = @ + 1]

\* finalizeNode(state)
toolLimitFinalize(s) ==
    [s EXCEPT !.messages = Append(@, UserMsg(NoticeText)),
              !.ctx.finalizedDueToToolLimit = TRUE,
              !.obs.notices = @ + 1]

\* tool limit gate and tool dispatch, up to the await of toolsNode
ToolGate(s) ==
    IF s.ctx.finalizedDueToToolLimit THEN Break(s, "limit")
    ELSE IF ReachedLimit(s.toolCallCount, MaxToolCalls(opts, config))
            /\ LastToolCalls(s.messages) # <<>>
    THEN [toolLimitFinalize(s) EXCEPT !.pc = "loop"]
    ELSE IF LastToolCalls(s.messages) = <<>> THEN Break(s, "done")
    ELSE IF isCancelled(cancel) THEN Cancelled(s, "before_tools")
    ELSE CallToolsNode(s, "tools")

\* budget gate and agent step, up to the await of agentCore
BudgetGate(s) ==
    LET s1 == [s EXCEPT !.obs.budgetChecks = @ + 1] IN
    IF countMessagesTokens(s1.messages) > MaxTok(opts)
    THEN Break([s1 EXCEPT !.ctx.needsSummarization = TRUE], "budget")
    ELSE IF isCancelled(cancel) THEN Cancelled(s1, "before_agent")
    ELSE CallAgentCore(s1, "agent")

\* the request gate evaluating whatever count the store holds
RequestGateAlways(s) ==
    LET s1 == [s EXCEPT !.obs.requestGates = @ + 1] IN
    IF opts.guardrails THEN [s1 EXCEPT !.pc = "req_guard"] ELSE BudgetGate(s1)

\* request guardrails, up to the await of evaluateGuardrails
RequestGate(s) ==
    LET s1 == [s EXCEPT !.obs.requestGates = @ + 1] IN
    IF opts.guardrails /\ s.ctx.guardrailStore.lastRequestLength # Len(s.messages)
    THEN [s1 EXCEPT !.pc = "req_guard"]
    ELSE BudgetGate(s1)

\* the guardrail-authored message
GuardMsg(reason, fallback) ==
    Msg("assistant", "guardrail", IF reason # "" THEN reason ELSE fallback, <<>>, 0)

\* incidents an outcome carries
Incidents(outcome) == IF outcome = "ok" THEN 0 ELSE 1

\* top of the while loop, up to the first await
LoopTop(s, r) ==
    IF s.iterations >= IterationLimit(opts, config) THEN Break(s, "ceiling")
    ELSE LET s1 == [s EXCEPT !.iterations = @ + 1] IN
         IF isCancelled(cancel) THEN Cancelled(s1, "loop")
         ELSE IF s1.resumeStage = "tools" THEN ToolGate([s1 EXCEPT !.resumeStage = ""])
         ELSE IF PauseRequested(r) THEN Break(Paused(s1, "before_guardrails"), "paused")
         ELSE RequestGate(s1)

\* evaluateGuardrails (request phase) has returned outcome
AfterRequestGuardrails(s, outcome, reason) ==
    LET s1 == [s EXCEPT !.ctx.guardrailStore.lastRequestLength = Len(s.messages),
                        !.guardrailResult = @ + Incidents(outcome),
                        !.obs.requestEvals = @ + 1,
                        !.obs.requestEvaluated = s.messages,
                        !.env.warns = IF outcome = "warn" THEN @ - 1 ELSE @] IN
    IF outcome = "block"
    THEN Break([s1 EXCEPT !.messages = Append(@, GuardMsg(reason, RequestBlockedText)),
                          !.ctx.guardrailBlocked = "request",
                          !.ctx.guardrailReason = reason], "blocked_request")
    ELSE BudgetGate(s1)

\* agentCore has returned the response
AfterAgentCore(s, response, r) ==
    LET s1 == [s EXCEPT !.messages = Append(@, response),
                        !.obs.unevaluated = TRUE,
                        !.obs.textResponses =
                            IF response.tool_calls = <<>> THEN 1 ELSE @] IN
    IF PauseRequested(r) THEN Break(Paused(s1, "after_agent"), "paused")
    ELSE IF opts.guardrails /\ s1.ctx.guardrailStore.lastResponseLength # Len(s1.messages)
    THEN [s1 EXCEPT !.pc = "resp_guard"]
    ELSE ToolGate(s1)

\* the guardrail message pushed without the pop
KeepLast(msgs, m) == Append(msgs, m)

\* updatedMessages.pop(); updatedMessages.push(m)
ReplaceLast(msgs, m) == Append(SubSeq(msgs, 1, Len(msgs) - 1), m)

\* evaluateGuardrails (response phase) has returned outcome
AfterResponseGuardrails(s, outcome, reason) ==
    LET n == Len(s.messages)
        s1 == [s EXCEPT !.ctx.guardrailStore.lastResponseLength = n,
                        !.guardrailResult = @ + Incidents(outcome),
                        !.obs.responseEvals = @ + 1,
                        !.obs.unevaluated = FALSE,
                        !.env.warns = IF outcome = "warn" THEN @ - 1 ELSE @] IN
    IF outcome = "block"
    THEN Break([s1 EXCEPT !.messages = ReplaceLast(@, GuardMsg(reason, ResponseBlockedText)),
                          !.ctx.guardrailBlocked = "response",
                          !.ctx.guardrailReason = reason,
                          !.obs.replaced = LastMsg(s.messages)], "blocked_response")
    ELSE IF outcome = "warn"
    THEN ToolGate([s1 EXCEPT !.messages[n].meta = "warn"])
    ELSE ToolGate(s1)

\* what the tool-dispatch node returns: o.approval (awaiting approval), o.incr (the rise
\* of toolCallCount), o.structured (the 'response' tool has run)
ToolPayload(name) == IF name = "fetch" THEN "<big>" ELSE "result"

ToolResults(tcs) == [i \in 1..Len(tcs) |-> ToolMsg(tcs[i].id, tcs[i].name, ToolPayload(tcs[i].name))]

toolsNode(s, o) ==
    IF o.approval THEN [s EXCEPT !.ctx.awaitingApproval = TRUE, !.obs.uncountedDispatches = 1]
    ELSE [s EXCEPT !.messages = @ \o ToolResults(LastToolCalls(s.messages)),
                   !.obs.uncountedDispatches = IF o.incr = 0 THEN 1 ELSE @,
                   !.toolCallCount = @ + o.incr,
                   !.ctx.awaitingApproval = FALSE,
                   !.ctx.finalizedDueToStructuredOutput = @ \/ o.structured,
                   !.env.incr = @ - o.incr]

\* toolsNode has returned
AfterToolsNode(s, o, r) ==
    LET s1 == toolsNode(s, o) IN
    IF s1.ctx.awaitingApproval THEN Break(s1, "approval")
    ELSE IF PauseRequested(r) THEN Break(Paused(s1, "after_tools"), "paused")
    ELSE IF s1.ctx.finalizedDueToStructuredOutput THEN Break(s1, "structured")
    ELSE [s1 EXCEPT !.pc = "loop"]

\* the nudge applied whether or not the state already carries its marker
ShouldForceFinalizeAgain(s) ==
    /\ opts.outputSchema
    /\ ~s.ctx.finalizedDueToStructuredOutput
    /\ LastToolCalls(s.messages) = <<>>

\* does the structured-output nudge apply after the loop
ShouldForceFinalize(s) ==
    /\ opts.outputSchema
    /\ ~s.ctx.finalizedDueToStructuredOutput
    /\ LastToolCalls(s.messages) = <<>>
    /\ ~s.ctx.structuredOutputForceFinalize

\* after the loop: the structured-output force-finalize, up to the await of agentCore
AfterLoop(s) ==
    IF ShouldForceFinalize(s)
    THEN CallAgentCore([s EXCEPT !.ctx.structuredOutputForceFinalize = TRUE,
                                 !.messages = Append(@, SystemMsg(ForceText)),
                                 !.obs.forced = @ + 1], "force_agent")
    ELSE [s EXCEPT !.pc = "final"]

\* the forced agentCore has returned (response), or thrown (caught)
AfterForcedAgentCore(s, failed, response) ==
    IF failed THEN [s EXCEPT !.pc = "final", !.obs.engineFailures = @ + 1]
    ELSE LET s1 == [s EXCEPT !.messages = Append(@, response), !.obs.unevaluated = TRUE] IN
         IF response.tool_calls # <<>> THEN CallToolsNode(s1, "force_tools")
         ELSE [s1 EXCEPT !.pc = "final"]

AfterForcedToolsNode(s, o) == [toolsNode(s, o) EXCEPT !.pc = "final"]

\* the after-loop check of onStateChange, and the return; r1 and r2 are what the two
\* calls of the callback do
FinalCheck(s, r1, r2) ==
    IF s.pausedStage = "" /\ config.onStateChange
    THEN IF r1 = "throw" THEN [s EXCEPT !.pc = "rejected", !.obs.callbackFailures = @ + 1]
         ELSE IF r1 = "true" /\ r2 = "true" THEN [Paused(s, "after_loop") EXCEPT !.pc = "returned"]
         ELSE [s EXCEPT !.pc = "returned"]
    ELSE [s EXCEPT !.pc = "returned"]

-----------------------------------------------------------------------------
(* Inputs of the model *)

\* maxTokens of a configured summarization object
SmallMaxTokens == 45

\* a ceiling of the smart agent between the estimate of a history with one fetched
\* payload and the estimate of a history with two
ScenarioMaxTokens == 200

NoMsg == Msg("", "", "", <<>>, 0)

NoObs ==
    [stop |-> "", engineCalls |-> 0, engineOverBudget |-> FALSE, engineAfterStop |-> FALSE,
     dispatches |-> 0, toolsAfterStop |-> FALSE, notices |-> 0,
     budgetChecks |-> 0, requestEvals |-> 0, responseEvals |-> 0, forced |-> 0,
     replaced |-> NoMsg, input |-> <<>>, inputCount |-> 0, cancelledAtInvoke |-> FALSE,
     resumed |-> FALSE, textResponses |-> 0, uncountedDispatches |-> 0,
     enteredCancelled |-> FALSE, engineFailures |-> 0, sinkFailures |-> 0,
     requestEvaluated |-> <<>>, unevaluated |-> FALSE, callbackFailures |-> 0,
     requestGates |-> 0, resumedFrom |-> ""]

FullEnv == [incr |-> MaxIncr, warns |-> MaxWarns]

PendingCall == AssistantCalls("", <<ToolCall(2, "tool")>>)

\* the states handed to invoke
Inputs ==
    {[messages |-> <<UserMsg("hi")>>, toolCallCount |-> 0, ctx |-> EmptyCtx],
     [messages |-> <<UserMsg("<big>")>>, toolCallCount |-> 0, ctx |-> EmptyCtx],
     [messages |-> <<UserMsg("<huge>")>>, toolCallCount |-> 0, ctx |-> EmptyCtx],
     [messages |-> <<UserMsg("hi"), PendingCall>>, toolCallCount |-> 0,
      ctx |-> [EmptyCtx EXCEPT !.resumeStage = "tools", !.awaitingApproval = TRUE]],
     [messages |-> <<UserMsg("hi"), PendingCall>>, toolCallCount |-> 1,
      ctx |-> [EmptyCtx EXCEPT !.resumeStage = "tools", !.awaitingApproval = TRUE]],
     [messages |-> <<UserMsg("hi"), PendingCall>>, toolCallCount |-> 0,
      ctx |-> [EmptyCtx EXCEPT !.paused = [stage |-> "after_agent", iteration |-> 1]]],
     [messages |-> <<UserMsg("hi")>>, toolCallCount |-> 0,
      ctx |-> [EmptyCtx EXCEPT !.cancelled = [stage |-> "loop", reason |-> "aborted"]]],
     [messages |-> <<UserMsg("hi")>>, toolCallCount |-> 0,
      ctx |-> [EmptyCtx EXCEPT !.structuredOutputForceFinalize = TRUE]],
     [messages |-> <<UserMsg("hi")>>, toolCallCount |-> 0,
      ctx |-> [EmptyCtx EXCEPT !.guardrailStore.lastRequestLength = 1]]}

LimitChoices == {Undefined, Finite(1), Finite(2), Finite(11), Infinity}

\* the options the model explores: every limit with the default ceiling, the small
\* limits with a configured ceiling
AgentOptions ==
    [maxToolCalls : LimitChoices, outputSchema : BOOLEAN, guardrails : BOOLEAN,
     summarization : {SumUndefined}]
      \cup [maxToolCalls : {Finite(1), Finite(2)}, outputSchema : BOOLEAN,
            guardrails : BOOLEAN, summarization : {SumObject(TRUE, SmallMaxTokens)}]

\* the invoke configurations: limits.maxToolCalls, onStateChange, stream, and whether the
\* onEvent sink returns ("quiet") or throws
InvokeConfigs ==
    [maxToolCalls : {Undefined, Finite(1)}, onStateChange : BOOLEAN, stream : {FALSE},
     sink : {"quiet"}]
      \cup [maxToolCalls : {Undefined}, onStateChange : {FALSE}, stream : BOOLEAN,
            sink : {"throws"}]

QuietConfig ==
    [maxToolCalls |-> Undefined, onStateChange |-> FALSE, stream |-> FALSE, sink |-> "quiet"]

CancelChoices == [signal : BOOLEAN, token : BOOLEAN, deadline : BOOLEAN]

\* no node or helper is being called directly
NoCall == [op |-> "none"]

\* createSmartAgent.invoke: position, loop counter i, lastResult set (invoked), the clock
\* read by the summarization node, whether the summarizer's engine fails during this
\* invoke, and observations over the base invocations: the engine calls of the turn
\* loop, the summarization events, whether the budget gate has found the history over
\* the ceiling with a compressible tool message since the last engine call, the passes
\* that ran since then, and the numbers of passes found between such a gate and the
\* engine call after it
SmartIdle ==
    [pc |-> "idle", i |-> 0, invoked |-> FALSE, clock |-> 0, passes |-> 0, changes |-> 0,
     over |-> FALSE, engineInvoked |-> FALSE, summarizerDown |-> FALSE,
     engineTotal |-> 0, events |-> 0, pendingGate |-> FALSE, sinceGate |-> 0, gaps |-> {}]

SmartOff == [SmartIdle EXCEPT !.pc = "off"]

-----------------------------------------------------------------------------
(* Actions of createAgent *)

Init ==
    /\ opts \in AgentOptions
    /\ config = QuietConfig
    /\ pc = "idle"
    /\ messages = <<>>
    /\ toolCallCount = 0
    /\ ctx = EmptyCtx
    /\ summaries = <<>>
    /\ guardrailResult = 0
    /\ iterations = 0
    /\ resumeStage = ""
    /\ pausedStage = ""
    /\ cancel = NoCancel
    /\ smart = SmartOff
    /\ env = FullEnv
    /\ obs = NoObs
    /\ toolHistory = <<>>
    /\ toolHistoryArchived = <<>>
    /\ pendingApprovals = <<>>
    /\ call = NoCall

\* the initial state built with a fresh tool call count
StartRunCountReset(input, cfg, c) ==
    /\ config' = cfg
    /\ cancel' = c
    /\ messages' = input.messages
    /\ toolCallCount' = 0
    /\ ctx' = [input.ctx EXCEPT !.paused = NoPaused, !.resumeStage = ""]
    /\ resumeStage' = ResumeStageOf(input.ctx)
    /\ summaries' = <<>>
    /\ guardrailResult' = 0
    /\ iterations' = 0
    /\ pausedStage' = ""
    /\ pc' = "loop"
    /\ obs' = [NoObs EXCEPT !.input = input.messages, !.inputCount = input.toolCallCount,
                            !.cancelledAtInvoke = isCancelled(c),
                            !.resumed = input.ctx.resumeStage = "tools",
                            !.enteredCancelled = input.ctx.cancelled # NoCancelled,
                            !.resumedFrom = input.ctx.paused.stage]

\* invokeAgent builds the initial state; runLoop strips __paused and __resumeStage
StartRun(input, cfg, c) ==
    /\ config' = cfg
    /\ cancel' = c
    /\ messages' = input.messages
    /\ toolCallCount' = input.toolCallCount
    /\ ctx' = [input.ctx EXCEPT !.paused = NoPaused, !.resumeStage = ""]
    /\ resumeStage' = ResumeStageOf(input.ctx)
    /\ summaries' = <<>>
    /\ guardrailResult' = 0
    /\ iterations' = 0
    /\ pausedStage' = ""
    /\ pc' = "loop"
    /\ obs' = [NoObs EXCEPT !.input = input.messages, !.inputCount = input.toolCallCount,
                            !.cancelledAtInvoke = isCancelled(c),
                            !.resumed = input.ctx.resumeStage = "tools",
                            !.enteredCancelled = input.ctx.cancelled # NoCancelled,
                            !.resumedFrom = input.ctx.paused.stage]

\* the runs the model explores: with a configured ceiling every input and configuration;
\* with the default ceiling the over-sized input, and the small fresh input without
\* guardrails and state-change callback; a state carrying the cancellation marker or the
\* force-finalize marker of an earlier invocation is explored with the default ceiling
\* only, a throwing event sink with the small fresh input only; a state carrying the
\* guardrail store of an earlier invocation is explored with guardrails only
Explored(o, cfg, input) ==
    /\ \/ o.summarization.kind = "object"
       \/ input.messages = <<UserMsg("<huge>")>>
       \/ ~o.guardrails /\ ~cfg.onStateChange /\ input.messages = <<UserMsg("hi")>>
    /\ input.ctx.guardrailStore # NoStore =>
          (o.guardrails /\ ~o.outputSchema /\ ~cfg.onStateChange)
    /\ input.ctx.cancelled # NoCancelled => o.summarization.kind # "object"
    /\ input.ctx.structuredOutputForceFinalize => o.summarization.kind # "object"
    /\ cfg.sink = "throws" =>
          /\ o.summarization.kind # "object"
          /\ ~o.guardrails
          /\ input.messages = <<UserMsg("hi")>> /\ input.ctx = EmptyCtx

Invoke ==
    /\ pc = "idle"
    /\ smart.pc = "off"
    /\ \E input \in Inputs, cfg \in InvokeConfigs, c \in CancelChoices :
          /\ Explored(opts, cfg, input)
          /\ StartRun(input, cfg, c)
    /\ UNCHANGED <<Stores, opts, smart, env>>

CallbackResults == IF config.onStateChange THEN {"false", "true", "throw"} ELSE {"false"}

GuardrailOutcomes == {"ok", "block"} \cup (IF env.warns > 0 THEN {"warn"} ELSE {})

BlockReasons == {"", "policy"}

\* the responses of the reasoning engine (with the scenario's ceiling every tool it
\* calls is the one fetching a payload)
Responses ==
    {AssistantText("ok")}
        \cup (IF opts.summarization.maxTokens # ScenarioMaxTokens
              THEN {AssistantCalls("", <<ToolCall(Len(messages) + 1, "tool")>>)}
              ELSE {})
        \cup (IF opts.outputSchema
              THEN {AssistantCalls("", <<ToolCall(Len(messages) + 1, "response")>>)}
              ELSE {})
        \cup (IF smart.pc # "off"
              THEN {AssistantCalls("", <<ToolCall(Len(messages) + 1, "fetch")>>)}
              ELSE {})

\* the outcomes of the tool-dispatch node for the pending tool calls
CallsResponseTool(tcs) == \E i \in 1..Len(tcs) : tcs[i].name = "response"

ToolOutcomes ==
    {o \in [approval : BOOLEAN, incr : {0, 1}, structured : BOOLEAN] :
        /\ o.approval => (o.incr = 0 /\ ~o.structured)
        /\ o.incr <= env.incr
        /\ o.structured = (~o.approval /\ CallsResponseTool(LastToolCalls(messages)))}

Fixed == <<Stores, opts, config, cancel, smart, summaries>>

LoopStep ==
    /\ pc = "loop"
    /\ \E r \in CallbackResults : Become(LoopTop(Cur, r))
    /\ UNCHANGED Fixed

RequestGuardrailsReturn ==
    /\ pc = "req_guard"
    /\ \E outcome \in GuardrailOutcomes, reason \in BlockReasons :
          /\ outcome # "block" => reason = ""
          /\ Become(AfterRequestGuardrails(Cur, outcome, reason))
    /\ UNCHANGED Fixed

\* agentCore delivers the text of a streamed response to ctx.__onEvent, the sink as the
\* caller supplied it: does the delivery throw
StreamEventThrows(response) ==
    config.stream /\ config.sink = "throws" /\ response.content # ""

AgentCoreReturns ==
    /\ pc = "agent"
    /\ \E response \in Responses, r \in CallbackResults :
          /\ ~StreamEventThrows(response)
          /\ Become(AfterAgentCore(Cur, response, r))
    /\ UNCHANGED Fixed

\* the sink throws inside agentCore's try block: agentCore rethrows, invoke rejects
AgentCoreSinkThrows ==
    /\ pc = "agent"
    /\ \E response \in Responses : StreamEventThrows(response)
    /\ pc' = "rejected"
    /\ obs' = [obs EXCEPT !.sinkFailures = @ + 1]
    /\ UNCHANGED <<Stores, opts, config, messages, toolCallCount, ctx, summaries,
                   guardrailResult, iterations, resumeStage, pausedStage, cancel, smart, env>>

\* a failed engine call answered by another call
AgentCoreRetries ==
    /\ pc = "agent"
    /\ pc' = "agent"
    /\ obs' = [obs EXCEPT !.engineFailures = @ + 1, !.engineCalls = @ + 1]
    /\ UNCHANGED <<Stores, opts, config, messages, toolCallCount, ctx, summaries,
                   guardrailResult, iterations, resumeStage, pausedStage, cancel, smart, env>>

\* the engine's invoke throws: runLoop and invoke reject
AgentCoreThrows ==
    /\ pc = "agent"
    /\ pc' = "rejected"
    /\ obs' = [obs EXCEPT !.engineFailures = @ + 1]
    /\ UNCHANGED <<Stores, opts, config, messages, toolCallCount, ctx, summaries,
                   guardrailResult, iterations, resumeStage, pausedStage, cancel, smart, env>>

ResponseGuardrailsReturn ==
    /\ pc = "resp_guard"
    /\ \E outcome \in GuardrailOutcomes, reason \in BlockReasons :
          /\ outcome # "block" => reason = ""
          /\ Become(AfterResponseGuardrails(Cur, outcome, reason))
    /\ UNCHANGED Fixed

ToolsNodeReturns ==
    /\ pc = "tools"
    /\ \E o \in ToolOutcomes, r \in CallbackResults : Become(AfterToolsNode(Cur, o, r))
    /\ UNCHANGED Fixed

LoopExit ==
    /\ pc = "after_loop"
    /\ Become(AfterLoop(Cur))
    /\ UNCHANGED Fixed

ForcedAgentCoreReturns ==
    /\ pc = "force_agent"
    /\ \E response \in Responses :
          /\ ~StreamEventThrows(response)
          /\ Become(AfterForcedAgentCore(Cur, FALSE, response))
    /\ UNCHANGED Fixed

\* the sink throws inside the forced agentCore: the force-finalize catches it
ForcedAgentCoreSinkThrows ==
    /\ pc = "force_agent"
    /\ \E response \in Responses : StreamEventThrows(response)
    /\ Become([Cur EXCEPT !.pc = "final", !.obs.sinkFailures = @ + 1])
    /\ UNCHANGED Fixed

ForcedAgentCoreThrows ==
    /\ pc = "force_agent"
    /\ Become(AfterForcedAgentCore(Cur, TRUE, NoMsg))
    /\ UNCHANGED Fixed

ForcedToolsNodeReturns ==
    /\ pc = "force_tools"
    /\ \E o \in ToolOutcomes : Become(AfterForcedToolsNode(Cur, o))
    /\ UNCHANGED Fixed

Return ==
    /\ pc = "final"
    /\ \E r1 \in CallbackResults, r2 \in CallbackResults : Become(FinalCheck(Cur, r1, r2))
    /\ UNCHANGED Fixed

\* a cancellation cause fires while the run is under way
Fire ==
    /\ pc \notin {"idle", "returned", "rejected"}
    /\ ~isCancelled(cancel)
    /\ iterations <= MaxFireIter
    /\ \E cause \in {"signal", "token", "deadline"} : cancel' = [cancel EXCEPT ![cause] = TRUE]
    /\ UNCHANGED <<Stores, opts, config, pc, messages, toolCallCount, ctx, summaries,
                   guardrailResult, iterations, resumeStage, pausedStage, smart, env, obs>>

Next ==
    \/ Invoke
    \/ LoopStep
    \/ RequestGuardrailsReturn
    \/ AgentCoreReturns
    \/ AgentCoreThrows
    \/ AgentCoreSinkThrows
    \/ ResponseGuardrailsReturn
    \/ ToolsNodeReturns
    \/ LoopExit
    \/ ForcedAgentCoreReturns
    \/ ForcedAgentCoreThrows
    \/ ForcedAgentCoreSinkThrows
    \/ ForcedToolsNodeReturns
    \/ Return
    \/ Fire

Spec == Init /\ [][Next]_vars

\* the run is over: invoke has returned, or rejected (a throwing engine call or callback)
Done == pc \in {"returned", "rejected"}

\* the variant of the run: the iterations left, then the position inside the
\* iteration, then the positions after the loop; a cause that can still fire counts one
PcRank(p) ==
    CASE p = "req_guard" -> 5
      [] p = "agent" -> 4
      [] p = "resp_guard" -> 3
      [] p = "tools" -> 2
      [] p = "loop" -> 1
      [] OTHER -> 0

AfterRank(p) ==
    CASE p = "after_loop" -> 4
      [] p = "force_agent" -> 3
      [] p = "force_tools" -> 2
      [] p = "final" -> 1
      [] OTHER -> 0

Variant ==
    IF pc = "idle" THEN -1
    ELSE 2 * (IF PcRank(pc) > 0
              THEN 5 + 6 * (IterationLimit(opts, config) - iterations) + PcRank(pc)
              ELSE AfterRank(pc))
           + (IF isCancelled(cancel) THEN 0 ELSE 1)

\* a run that is not over can take its next step: the position is one of runLoop's and
\* the collaborator awaited has an answer to give
CanStep ==
    /\ pc \in {"idle", "loop", "req_guard", "agent", "resp_guard", "tools", "after_loop",
               "force_agent", "force_tools", "final", "returned", "rejected"}
    /\ pc \in {"req_guard", "resp_guard"} => GuardrailOutcomes # {}
    /\ pc \in {"agent", "force_agent"} => Responses # {}
    /\ pc \in {"tools", "force_tools"} => ToolOutcomes # {}

-----------------------------------------------------------------------------
(* The summarization node *)

SummaryText == "summary"

\* summarizationEnabled of createSmartAgent, config.enabled of the node
summarizationEnabled(o) ==
    IF o.summarization.kind = "object" THEN o.summarization.enable
    ELSE o.summarization.kind # "false"

\* any tool message counted as payload, the placeholders included
CompressibleAny(msgs) == \E i \in 1..Len(msgs) : msgs[i].role = "tool"

\* a tool message whose content is not the placeholder
Compressible(msgs) ==
    \E i \in 1..Len(msgs) : msgs[i].role = "tool" /\ msgs[i].content # Placeholder

\* the node reaches model.invoke(summaryPrompt)
SummarizerInvokesEngine(msgs, o) == summarizationEnabled(o) /\ Compressible(msgs)

\* the keys of toolCallIdToAssistantIdx
AssistantCallIds(msgs) ==
    UNION {CallIds(msgs[i].tool_calls) : i \in {j \in 1..Len(msgs) : msgs[j].role = "assistant"}}

\* step 3 of the node: orphan tool messages dropped, the others' content replaced
MarkSummarized(msgs) ==
    LET ids == AssistantCallIds(msgs)
        Keep(m) == m.role # "tool" \/ (m.tool_call_id # 0 /\ m.tool_call_id \in ids)
        kept == SelectSeq(msgs, Keep)
    IN  [i \in 1..Len(kept) |->
            IF kept[i].role = "tool" THEN [kept[i] EXCEPT !.content = Placeholder]
            ELSE kept[i]]

\* the body of the loop of validateMessageSequence for the message m, entered with the
\* pending tool call ids: what is pushed to validated, and the pending ids afterwards
ValidateStep(m, pending) ==
    IF m.role = "assistant"
    THEN [kept |-> <<m>>,
          pending |-> IF m.tool_calls = <<>> THEN {} ELSE pending \cup CallIds(m.tool_calls)]
    ELSE IF m.role = "tool"
    THEN IF m.tool_call_id # 0 /\ m.tool_call_id \in pending
         THEN [kept |-> <<m>>, pending |-> pending \ {m.tool_call_id}]
         ELSE [kept |-> <<>>, pending |-> pending]
    ELSE [kept |-> <<m>>, pending |-> pending]

\* the loop over the messages lo..hi, in order (the range is walked by halves)
RECURSIVE ValidatedRange(_, _, _, _)
ValidatedRange(msgs, lo, hi, pending) ==
    IF lo > hi THEN [kept |-> <<>>, pending |-> pending]
    ELSE IF lo = hi THEN ValidateStep(msgs[lo], pending)
    ELSE LET mid == (lo + hi) \div 2
             left == ValidatedRange(msgs, lo, mid, pending)
             right == ValidatedRange(msgs, mid + 1, hi, left.pending)
         IN  [kept |-> left.kept \o right.kept, pending |-> right.pending]

\* the sequence taken as it is
validateMessageSequenceSkipped(msgs) == msgs

validateMessageSequence(msgs) == ValidatedRange(msgs, 1, Len(msgs), {}).kept

\* call_summary_<now>
SummaryCallId(now) == 1000 + now

assistantSummaryCall(id) ==
    AssistantCalls(SummaryCallText, <<ToolCall(id, "summarize_context")>>)

toolSummaryResponse(id, text) == ToolMsg(id, "summarize_context", text)

NoDelta == [changed |-> FALSE, messages |-> <<>>, summaries |-> <<>>]

\* the summary text the node starts from, before model.invoke is awaited
DefaultSummaryText == "Summary unavailable."

\* the node going on with the default summary text after a failed engine call
contextSummarizeUnguarded(msgs, sums, o, failed, now) ==
    IF ~summarizationEnabled(o) \/ ~Compressible(msgs) THEN NoDelta
    ELSE LET text == IF failed THEN DefaultSummaryText ELSE SummaryText IN
         [changed |-> TRUE,
          messages |-> validateMessageSequence(MarkSummarized(msgs))
                          \o <<assistantSummaryCall(SummaryCallId(now)),
                               toolSummaryResponse(SummaryCallId(now), text)>>,
          summaries |-> Append(sums, text)]

\* the node starting the summaries over with every pass
contextSummarizeRestarting(msgs, sums, o, failed, now) ==
    IF ~summarizationEnabled(o) \/ ~Compressible(msgs) \/ failed THEN NoDelta
    ELSE [changed |-> TRUE,
          messages |-> validateMessageSequence(MarkSummarized(msgs))
                          \o <<assistantSummaryCall(SummaryCallId(now)),
                               toolSummaryResponse(SummaryCallId(now), SummaryText)>>,
          summaries |-> <<SummaryText>>]

\* the previous summary put into the prompt: the last entry of state.summaries, or ""
previousSummary(sums) == IF sums = <<>> THEN "" ELSE sums[Len(sums)]

\* the node: what it returns for the messages and summaries of the state, the engine
\* call for the summary failing or not, at the clock reading now
contextSummarize(msgs, sums, o, failed, now) ==
    IF ~summarizationEnabled(o) \/ ~Compressible(msgs) \/ failed THEN NoDelta
    ELSE [changed |-> TRUE,
          messages |-> validateMessageSequence(MarkSummarized(msgs))
                          \o <<assistantSummaryCall(SummaryCallId(now)),
                               toolSummaryResponse(SummaryCallId(now), SummaryText)>>,
          summaries |-> Append(sums, SummaryText)]

-----------------------------------------------------------------------------
(* createSmartAgent: the outer loop around the base agent *)

\* maxTokens of the summarization object of the smart agent's options
SmartMaxTokens == 90

SystemPrompt == "<prompt>"

\* needsSummarization of the decisions
needsSummarization(msgs, o) ==
    /\ summarizationEnabled(o)
    /\ countMessagesTokens(msgs) >
          (IF o.summarization.kind = "object" /\ o.summarization.maxTokens # 0
           THEN o.summarization.maxTokens ELSE DefaultMaxTokens)

resolverDecision(msgs, o) ==
    IF needsSummarization(msgs, o) THEN "contextSummarize" ELSE "agent"

\* opts.limits?.maxToolCalls ?? 10
SmartLimit(o) ==
    IF o.maxToolCalls.kind = "undefined" THEN Finite(SmartDefaultMaxToolCalls)
    ELSE o.maxToolCalls

toolsDecision(msgs, count, o) ==
    IF ReachedLimit(count, SmartLimit(o)) THEN "toolLimitFinalize"
    ELSE resolverDecision(msgs, o)

\* i < iterationLimit of createSmartAgent.invoke
SmartLoopContinues(i, o) ==
    \/ SmartLimit(o).kind = "infinity"
    \/ i < Max(SmartLimit(o).n * SmartIterationFactor + SmartIterationSlack,
               SmartIterationFloor)

seedMessages(msgs) ==
    IF msgs # <<>> /\ msgs[1].role = "system" THEN msgs
    ELSE <<SystemMsg(SystemPrompt)>> \o msgs

SmartInputs ==
    {[messages |-> <<UserMsg("hi")>>, toolCallCount |-> 0, ctx |-> EmptyCtx],
     [messages |-> <<UserMsg("<big>")>>, toolCallCount |-> 0, ctx |-> EmptyCtx],
     [messages |-> <<UserMsg("<huge>")>>, toolCallCount |-> 0, ctx |-> EmptyCtx],
     [messages |-> <<UserMsg("<big>"), AssistantCalls("", <<ToolCall(3, "tool")>>),
                     ToolMsg(3, "tool", "result")>>,
      toolCallCount |-> 1, ctx |-> EmptyCtx],
     [messages |-> <<UserMsg("hi"), AssistantCalls("", <<ToolCall(3, "fetch")>>),
                     ToolMsg(3, "fetch", "<big>")>>,
      toolCallCount |-> 1, ctx |-> EmptyCtx]}

SmartOptions ==
    [maxToolCalls : {Undefined, Finite(1)}, outputSchema : {FALSE}, guardrails : {FALSE},
     summarization : {SumFalse, SumUndefined, SumObject(TRUE, SmartMaxTokens),
                      SumObject(FALSE, SmartMaxTokens),
                      SumObject(TRUE, ScenarioMaxTokens)}]

\* the runs the model explores: the over-sized input with the default ceiling, the
\* others with the configured one
SmartExplored(o, input) ==
    /\ (o.summarization.kind = "object") = (input.messages # <<UserMsg("<huge>")>>)
    /\ o.summarization.maxTokens = ScenarioMaxTokens => input.messages = <<UserMsg("hi")>>

SmartInit ==
    /\ opts \in SmartOptions
    /\ config = QuietConfig
    /\ pc = "idle"
    /\ messages = <<>>
    /\ toolCallCount = 0
    /\ ctx = EmptyCtx
    /\ summaries = <<>>
    /\ guardrailResult = 0
    /\ iterations = 0
    /\ resumeStage = ""
    /\ pausedStage = ""
    /\ cancel = NoCancel
    /\ smart = SmartIdle
    /\ env = FullEnv
    /\ obs = NoObs
    /\ toolHistory = <<>>
    /\ toolHistoryArchived = <<>>
    /\ pendingApprovals = <<>>
    /\ call = NoCall

SmartInvoke ==
    /\ smart.pc = "idle"
    /\ pc = "idle"
    /\ \E input \in SmartInputs, down \in BOOLEAN :
          /\ SmartExplored(opts, input)
          /\ messages' = seedMessages(input.messages)
          /\ toolCallCount' = input.toolCallCount
          /\ ctx' = input.ctx
          /\ smart' = [SmartIdle EXCEPT
                          !.pc = "top",
                          !.summarizerDown = down,
                          !.over = countMessagesTokens(seedMessages(input.messages))
                                      > MaxTok(opts)]
    /\ summaries' = <<>>
    /\ UNCHANGED <<Stores, opts, config, pc, guardrailResult, iterations, resumeStage, pausedStage,
                   cancel, env, obs>>

\* base.invoke(state, config)
BaseInvoke ==
    /\ StartRun([messages |-> messages, toolCallCount |-> toolCallCount, ctx |-> ctx],
                config, cancel)
    /\ UNCHANGED <<Stores, opts, env>>

SmartStays ==
    UNCHANGED <<Stores, opts, config, pc, messages, toolCallCount, ctx, summaries, guardrailResult,
                iterations, resumeStage, pausedStage, cancel, env, obs>>

\* the delta of the summarization node is merged into the state
ApplyDelta(delta) ==
    /\ messages' = delta.messages
    /\ summaries' = delta.summaries
    /\ UNCHANGED <<Stores, opts, config, pc, toolCallCount, ctx, guardrailResult, iterations,
                   resumeStage, pausedStage, cancel, env, obs>>

\* a base invocation has returned: its engine calls and the stop at its budget gate
BaseObserved(sm) ==
    LET answered == sm.pendingGate /\ obs.engineCalls > 0
        s1 == [sm EXCEPT !.invoked = TRUE,
                         !.engineInvoked = @ \/ obs.engineCalls > 0,
                         !.engineTotal = @ + obs.engineCalls,
                         !.gaps = IF answered THEN @ \cup {sm.sinceGate} ELSE @,
                         !.pendingGate = IF answered THEN FALSE ELSE @]
    IN  IF obs.stop = "budget" /\ Compressible(messages) /\ ~s1.pendingGate
        THEN [s1 EXCEPT !.pendingGate = TRUE, !.sinceGate = 0]
        ELSE s1

\* the summarizer has been called: the clock is read, and a pass that reaches the engine
\* emits one summarization event
PassObserved(sm) ==
    LET s1 == [sm EXCEPT !.clock = @ + 1] IN
    IF SummarizerInvokesEngine(messages, opts)
    THEN [s1 EXCEPT !.events = @ + 1, !.sinceGate = IF sm.pendingGate THEN @ + 1 ELSE @]
    ELSE s1

\* top of the for loop, up to the first await
SmartLoopTop ==
    /\ smart.pc = "top"
    /\ IF ~SmartLoopContinues(smart.i, opts)
       THEN smart' = [smart EXCEPT !.pc = "exit"] /\ SmartStays
       ELSE IF summarizationEnabled(opts) /\ resolverDecision(messages, opts) = "contextSummarize"
       THEN smart' = [smart EXCEPT !.pc = "sum_before", !.passes = @ + 1] /\ SmartStays
       ELSE smart' = [smart EXCEPT !.pc = "base"] /\ BaseInvoke

\* the summarizer called before the base agent has returned
SummarizerReturnsBefore ==
    /\ smart.pc = "sum_before"
    /\ LET delta == contextSummarize(messages, summaries, opts, smart.summarizerDown,
                                      smart.clock)
              sm == PassObserved(smart) IN
          IF delta.changed
          THEN /\ smart' = [sm EXCEPT !.pc = "top", !.i = @ + 1, !.changes = @ + 1]
               /\ ApplyDelta(delta)
          ELSE /\ smart' = [sm EXCEPT !.pc = "base"]
               /\ BaseInvoke

\* base.invoke has returned
SmartBaseReturns ==
    /\ smart.pc = "base"
    /\ pc = "returned"
    /\ pc' = "idle"
    /\ LET sm == BaseObserved(smart) IN
       IF ctx.needsSummarization /\ summarizationEnabled(opts)
       THEN /\ ctx' = [ctx EXCEPT !.needsSummarization = FALSE]
            /\ smart' = [sm EXCEPT !.pc = "sum_needs", !.passes = @ + 1]
       ELSE /\ ctx' = ctx
            /\ smart' = [sm EXCEPT !.pc =
                            IF ctx.finalizedDueToStructuredOutput THEN "exit"
                            ELSE IF summarizationEnabled(opts)
                                    /\ toolsDecision(messages, toolCallCount, opts)
                                          = "contextSummarize"
                            THEN "sum_after" ELSE "exit",
                         !.passes =
                            IF ~ctx.finalizedDueToStructuredOutput
                               /\ summarizationEnabled(opts)
                               /\ toolsDecision(messages, toolCallCount, opts)
                                     = "contextSummarize"
                            THEN @ + 1 ELSE @]
    /\ UNCHANGED <<Stores, opts, config, messages, toolCallCount, summaries, guardrailResult,
                   iterations, resumeStage, pausedStage, cancel, env, obs>>

\* base.invoke has rejected: so does the smart agent's invoke
SmartBaseRejects ==
    /\ smart.pc \in {"base", "fallback"}
    /\ pc = "rejected"
    /\ pc' = "idle"
    /\ smart' = [smart EXCEPT !.pc = "rejected"]
    /\ UNCHANGED <<Stores, opts, config, messages, toolCallCount, ctx, summaries, guardrailResult,
                   iterations, resumeStage, pausedStage, cancel, env, obs>>

\* the summarizer called for ctx.__needsSummarization has returned
SummarizerReturnsNeeded ==
    /\ smart.pc = "sum_needs"
    /\ LET delta == contextSummarize(messages, summaries, opts, smart.summarizerDown,
                                      smart.clock)
              sm == [PassObserved(smart) EXCEPT !.pc = "top", !.i = @ + 1] IN
          IF delta.changed
          THEN smart' = [sm EXCEPT !.changes = @ + 1] /\ ApplyDelta(delta)
          ELSE smart' = sm /\ SmartStays

\* the summarizer called after the base agent's turn has returned
SummarizerReturnsAfter ==
    /\ smart.pc = "sum_after"
    /\ LET delta == contextSummarize(messages, summaries, opts, smart.summarizerDown,
                                      smart.clock)
              sm == PassObserved(smart) IN
          IF delta.changed
          THEN /\ smart' = [sm EXCEPT !.pc = "top", !.i = @ + 1, !.changes = @ + 1]
               /\ ApplyDelta(delta)
          ELSE smart' = [sm EXCEPT !.pc = "exit"] /\ SmartStays

\* after the for loop: the fallback invoke when the base agent was never invoked
SmartExit ==
    /\ smart.pc = "exit"
    /\ IF ~smart.invoked
       THEN smart' = [smart EXCEPT !.pc = "fallback"] /\ BaseInvoke
       ELSE smart' = [smart EXCEPT !.pc = "returned"] /\ SmartStays

SmartFallbackReturns ==
    /\ smart.pc = "fallback"
    /\ pc = "returned"
    /\ pc' = "idle"
    /\ smart' = [BaseObserved(smart) EXCEPT !.pc = "returned"]
    /\ UNCHANGED <<Stores, opts, config, messages, toolCallCount, ctx, summaries, guardrailResult,
                   iterations, resumeStage, pausedStage, cancel, env, obs>>

SmartNext ==
    \/ SmartInvoke
    \/ SmartLoopTop
    \/ SummarizerReturnsBefore
    \/ SmartBaseReturns
    \/ SmartBaseRejects
    \/ SummarizerReturnsNeeded
    \/ SummarizerReturnsAfter
    \/ SmartExit
    \/ SmartFallbackReturns
    \/ LoopStep
    \/ AgentCoreReturns
    \/ AgentCoreThrows
    \/ ToolsNodeReturns
    \/ LoopExit
    \/ Return

SmartSpec == SmartInit /\ [][SmartNext]_vars

-----------------------------------------------------------------------------
(* The summarization node called directly on a state *)

\* the longest history handed to the node, and the number of passes made on it
MaxHistoryLen == 3
MaxPasses == 2

\* an entry of toolHistory: the execution of one tool call
HistoryEntry(executionId, tool_call_id, output) ==
    [executionId |-> executionId, tool_call_id |-> tool_call_id, output |-> output]

\* the tool history that goes with a message list: one live entry for every tool result
\* still in the history, one archived entry for every result already replaced
RECURSIVE EntriesOf(_, _, _)
EntriesOf(msgs, i, live) ==
    IF i > Len(msgs) THEN <<>>
    ELSE IF msgs[i].role = "tool" /\ msgs[i].tool_call_id # 0
            /\ (msgs[i].content # Placeholder) = live
    THEN <<HistoryEntry(i, msgs[i].tool_call_id,
                        IF live THEN msgs[i].content ELSE "result")>>
            \o EntriesOf(msgs, i + 1, live)
    ELSE EntriesOf(msgs, i + 1, live)

\* the messages the histories are built from
HistoryAlphabet ==
    {UserMsg("hi"), AssistantText("ok"),
     AssistantCalls("", <<ToolCall(3, "tool")>>),
     AssistantCalls("", <<ToolCall(3, "tool"), ToolCall(4, "fetch")>>),
     ToolMsg(3, "tool", "result"), ToolMsg(3, "tool", Placeholder),
     ToolMsg(4, "fetch", "<big>"), ToolMsg(0, "tool", "result")}

Histories == UNION {[1..n -> HistoryAlphabet] : n \in 1..MaxHistoryLen}

SummarizeOptions ==
    [maxToolCalls : {Undefined}, outputSchema : {FALSE}, guardrails : {FALSE},
     summarization : {SumFalse, SumUndefined, SumObject(TRUE, SmartMaxTokens),
                      SumObject(FALSE, SmartMaxTokens)}]

\* the fields of the state the node is called on
NodeState ==
    [messages |-> messages, summaries |-> summaries, toolCallCount |-> toolCallCount,
     toolHistory |-> toolHistory, toolHistoryArchived |-> toolHistoryArchived]

\* the call of the node: position, passes made, calls of model.invoke, the clock, the
\* state the running pass was called on and how the pass ended
NodeIdle ==
    [op |-> "summarize", pc |-> "ready", passes |-> 0, engineCalls |-> 0, clock |-> 0,
     before |-> [messages |-> <<>>, summaries |-> <<>>, toolCallCount |-> 0,
                 toolHistory |-> <<>>, toolHistoryArchived |-> <<>>],
     engineBefore |-> 0, outcome |-> "none", previousSummary |-> ""]

SummarizeInit ==
    /\ opts \in SummarizeOptions
    /\ config = QuietConfig
    /\ pc = "idle"
    /\ messages \in Histories
    /\ toolCallCount = Len(EntriesOf(messages, 1, TRUE)) + Len(EntriesOf(messages, 1, FALSE))
    /\ ctx = EmptyCtx
    /\ summaries \in {<<>>, <<"earlier">>}
    /\ guardrailResult = 0
    /\ iterations = 0
    /\ resumeStage = ""
    /\ pausedStage = ""
    /\ cancel = NoCancel
    /\ smart = SmartOff
    /\ env = FullEnv
    /\ obs = NoObs
    /\ toolHistory = EntriesOf(messages, 1, TRUE)
    /\ toolHistoryArchived = EntriesOf(messages, 1, FALSE)
    /\ pendingApprovals = <<>>
    /\ call = NodeIdle

NodeFrame ==
    <<opts, config, pc, toolCallCount, ctx, guardrailResult, iterations, resumeStage,
      pausedStage, cancel, smart, env, obs, toolHistory, toolHistoryArchived,
      pendingApprovals>>

\* summarizer(state), up to the await of model.invoke or the early return {}
SummarizeCall ==
    /\ call.op = "summarize"
    /\ call.pc \in {"ready", "returned"}
    /\ call.passes < MaxPasses
    /\ LET c == [call EXCEPT !.passes = @ + 1, !.before = NodeState,
                             !.engineBefore = call.engineCalls] IN
       IF SummarizerInvokesEngine(messages, opts)
       THEN call' = [c EXCEPT !.pc = "model", !.engineCalls = @ + 1, !.outcome = "none",
                              !.previousSummary = previousSummary(summaries)]
       ELSE call' = [c EXCEPT !.pc = "returned", !.outcome = "refused"]
    /\ UNCHANGED <<messages, summaries, NodeFrame>>

\* model.invoke has returned the summary: the node returns {messages, summaries} and
\* the caller merges the delta into the state
SummaryEngineReturns ==
    /\ call.op = "summarize"
    /\ call.pc = "model"
    /\ \E now \in {call.clock, call.clock + 1} :
          LET delta == contextSummarize(messages, summaries, opts, FALSE, now) IN
          /\ messages' = delta.messages
          /\ summaries' = delta.summaries
          /\ call' = [call EXCEPT !.pc = "returned", !.clock = now, !.outcome = "done"]
    /\ UNCHANGED NodeFrame

\* model.invoke has thrown: the node returns {}
SummaryEngineThrows ==
    /\ call.op = "summarize"
    /\ call.pc = "model"
    /\ LET delta == contextSummarize(messages, summaries, opts, TRUE, call.clock) IN
       IF delta.changed
       THEN messages' = delta.messages /\ summaries' = delta.summaries
       ELSE UNCHANGED <<messages, summaries>>
    /\ call' = [call EXCEPT !.pc = "returned", !.outcome = "failed"]
    /\ UNCHANGED NodeFrame

SummarizeNext ==
    \/ SummarizeCall
    \/ SummaryEngineReturns
    \/ SummaryEngineThrows

SummarizeSpec == SummarizeInit /\ [][SummarizeNext]_vars

-----------------------------------------------------------------------------
(* The snapshot codec and the approval resolver, called on a state the caller holds *)

\* the number of resolutions tried on one state
MaxResolves == 2

\* a record of pendingApprovals ("" stands for an absent field, 0 for an absent time)
Approval(id, toolCallId, status) ==
    [id |-> id, toolCallId |-> toolCallId, toolName |-> "tool", args |-> "system",
     status |-> status, decidedBy |-> "", comment |-> "", decidedAt |-> 0,
     approvedArgs |-> ""]

\* the state the caller holds
HeldState ==
    [messages |-> messages, toolCallCount |-> toolCallCount, toolHistory |-> toolHistory,
     toolHistoryArchived |-> toolHistoryArchived, summaries |-> summaries,
     pendingApprovals |-> pendingApprovals, ctx |-> ctx]

\* the snapshot without the summaries of the state
captureSnapshotCore(st) ==
    [state |-> [st EXCEPT !.ctx.paused = NoPaused, !.summaries = <<>>],
     metadata |-> [paused |-> st.ctx.paused]]

\* captureSnapshot(state): a deep copy of the state, the pause marker moved from ctx to
\* the metadata
captureSnapshot(st) ==
    [state |-> [st EXCEPT !.ctx.paused = NoPaused],
     metadata |-> [paused |-> st.ctx.paused]]

\* restoreSnapshot(snapshot): a deep copy of the stored state, marked as restored
restoreSnapshot(snap) == [snap.state EXCEPT !.ctx.restoredFromSnapshot = TRUE]

\* JSON.stringify(snapshot): the values a tool may have produced (the output of a tool
\* history entry, the arguments of an approval) as JSON writes them: a string quoted,
\* the number NaN as null
JsonStringify(snap) ==
    LET Text(v) == IF v = "<NaN>" THEN "null" ELSE "\"" \o v \o "\"" IN
    [snap EXCEPT
        !.state.toolHistory =
            [i \in 1..Len(@) |-> [@[i] EXCEPT !.output = Text(@)]],
        !.state.toolHistoryArchived =
            [i \in 1..Len(@) |-> [@[i] EXCEPT !.output = Text(@)]],
        !.state.pendingApprovals =
            [i \in 1..Len(@) |-> [@[i] EXCEPT !.args = Text(@), !.approvedArgs = Text(@)]]]

\* JSON.parse(json)
JsonParse(wire) ==
    LET Value(t) == IF t = "null" THEN "<null>" ELSE SubSeq(t, 2, Len(t) - 1) IN
    [wire EXCEPT
        !.state.toolHistory =
            [i \in 1..Len(@) |-> [@[i] EXCEPT !.output = Value(@)]],
        !.state.toolHistoryArchived =
            [i \in 1..Len(@) |-> [@[i] EXCEPT !.output = Value(@)]],
        !.state.pendingApprovals =
            [i \in 1..Len(@) |-> [@[i] EXCEPT !.args = Value(@), !.approvedArgs = Value(@)]]]

\* the record a resolution is about: the first with that id, else the first made for that
\* tool call id, else none (0)
FindApproval(approvals, id) ==
    LET byId == {i \in 1..Len(approvals) : approvals[i].id = id}
        byCall == {i \in 1..Len(approvals) : approvals[i].toolCallId = id}
        First(S) == CHOOSE i \in S : \A j \in S : i <= j
    IN  IF byId # {} THEN First(byId) ELSE IF byCall # {} THEN First(byCall) ELSE 0

\* the resolver taking any record it finds, pending or not
resolveToolApprovalStateAgain(st, res, now) ==
    LET k == FindApproval(st.pendingApprovals, res.id) IN
    IF k = 0 THEN [error |-> "not found", state |-> st]
    ELSE [error |-> "",
          state |-> [st EXCEPT
              !.pendingApprovals[k] =
                  [@ EXCEPT !.status = IF res.approved THEN "approved" ELSE "rejected",
                            !.decidedBy = res.decidedBy,
                            !.comment = res.comment,
                            !.decidedAt = now,
                            !.approvedArgs =
                                IF res.approvedArgs = "" THEN st.pendingApprovals[k].args
                                ELSE res.approvedArgs],
              !.ctx.resumeStage = "tools"]]

\* the resolver recording the approved arguments only when they are given
resolveToolApprovalStateAsGiven(st, res, now) ==
    LET k == FindApproval(st.pendingApprovals, res.id) IN
    IF k = 0 THEN [error |-> "not found", state |-> st]
    ELSE IF st.pendingApprovals[k].status # "pending"
    THEN [error |-> "already completed", state |-> st]
    ELSE [error |-> "",
          state |-> [st EXCEPT
              !.pendingApprovals[k] =
                  [@ EXCEPT !.status = IF res.approved THEN "approved" ELSE "rejected",
                            !.decidedBy = res.decidedBy,
                            !.comment = res.comment,
                            !.decidedAt = now,
                            !.approvedArgs = res.approvedArgs],
              !.ctx.resumeStage = "tools"]]

\* resolveToolApprovalState(state, resolution): what it throws, or the state it returns
resolveToolApprovalState(st, res, now) ==
    LET k == FindApproval(st.pendingApprovals, res.id) IN
    IF k = 0 THEN [error |-> "not found", state |-> st]
    ELSE IF st.pendingApprovals[k].status # "pending"
    THEN [error |-> "already completed", state |-> st]
    ELSE [error |-> "",
          state |-> [st EXCEPT
              !.pendingApprovals[k] =
                  [@ EXCEPT !.status = IF res.approved THEN "approved" ELSE "rejected",
                            !.decidedBy = res.decidedBy,
                            !.comment = res.comment,
                            !.decidedAt = now,
                            !.approvedArgs =
                                IF res.approvedArgs = "" THEN st.pendingApprovals[k].args
                                ELSE res.approvedArgs],
              !.ctx.resumeStage = "tools"]]

\* the calls made on the held state: position of the codec, the state captured, the
\* snapshot, whether it went through JSON text, what the held state is the result of
\* ("input", "restored", "resolved"), and the last resolution with the state it was
\* called on and what it threw
HelperIdle ==
    [op |-> "helper", pc |-> "held", original |-> <<>>, snapshot |-> <<>>,
     viaJson |-> FALSE, held |-> "input", resolves |-> 0, resolution |-> <<>>,
     before |-> <<>>, error |-> ""]

HelperInit ==
    /\ opts = [maxToolCalls |-> Undefined, outputSchema |-> FALSE, guardrails |-> FALSE,
               summarization |-> SumUndefined]
    /\ config = QuietConfig
    /\ pc = "idle"
    /\ messages = <<UserMsg("hi"),
                    AssistantCalls("", <<ToolCall(1, "tool"), ToolCall(2, "tool")>>)>>
    /\ toolCallCount = 2
    /\ ctx \in {EmptyCtx, [EmptyCtx EXCEPT !.paused = [stage |-> "after_agent", iteration |-> 1],
                                           !.awaitingApproval = TRUE]}
    /\ summaries = <<"earlier">>
    /\ guardrailResult = 0
    /\ iterations = 0
    /\ resumeStage = ""
    /\ pausedStage = ""
    /\ cancel = NoCancel
    /\ smart = SmartOff
    /\ env = FullEnv
    /\ obs = NoObs
    /\ toolHistory \in {<<>>} \cup {<<HistoryEntry(1, 7, v)>> : v \in {"result", "<NaN>"}}
    /\ toolHistoryArchived = <<>>
    /\ \E s1 \in {"pending", "approved", "rejected", "executed"},
          s2 \in {"none", "pending", "executed"} :
          pendingApprovals \in
              {<<>>,
               IF s2 = "none" THEN <<Approval("approval_1", "call_1", s1)>>
               ELSE <<Approval("approval_1", "call_1", s1),
                      Approval("approval_2", "call_2", s2)>>}
    /\ call = HelperIdle

HelperFrame ==
    <<opts, config, pc, guardrailResult, iterations, resumeStage, pausedStage, cancel,
      smart, env, obs>>

HeldUnchanged ==
    UNCHANGED <<messages, toolCallCount, ctx, summaries, toolHistory, toolHistoryArchived,
                pendingApprovals>>

\* snapshot = captureSnapshot(state)
Capture ==
    /\ call.op = "helper"
    /\ call.pc = "held"
    /\ call.held # "restored"
    /\ call' = [call EXCEPT !.pc = "captured", !.original = HeldState, !.viaJson = FALSE,
                            !.snapshot = captureSnapshot(HeldState)]
    /\ HeldUnchanged
    /\ UNCHANGED HelperFrame

\* parsed = JSON.parse(JSON.stringify(snapshot))
Transport ==
    /\ call.op = "helper"
    /\ call.pc = "captured"
    /\ ~call.viaJson
    /\ call' = [call EXCEPT !.snapshot = JsonParse(JsonStringify(@)), !.viaJson = TRUE]
    /\ HeldUnchanged
    /\ UNCHANGED HelperFrame

\* state = restoreSnapshot(snapshot)
Restore ==
    /\ call.op = "helper"
    /\ call.pc = "captured"
    /\ LET st == restoreSnapshot(call.snapshot) IN
          /\ messages' = st.messages
          /\ toolCallCount' = st.toolCallCount
          /\ ctx' = st.ctx
          /\ summaries' = st.summaries
          /\ toolHistory' = st.toolHistory
          /\ toolHistoryArchived' = st.toolHistoryArchived
          /\ pendingApprovals' = st.pendingApprovals
    /\ call' = [call EXCEPT !.pc = "held", !.held = "restored"]
    /\ UNCHANGED HelperFrame

\* state = resolveToolApprovalState(state, resolution), or the call throws
Resolve ==
    /\ call.op = "helper"
    /\ call.pc = "held"
    /\ call.resolves < MaxResolves
    /\ \E res \in [id : {"approval_1", "call_2", "approval_9"}, approved : BOOLEAN,
                   decidedBy : {"user@example.com"}, comment : {"Too risky"},
                   approvedArgs : {"", "sandbox"}] :
          LET out == resolveToolApprovalState(HeldState, res, call.resolves + 1) IN
          /\ call' = [call EXCEPT !.resolves = @ + 1, !.resolution = res,
                                  !.before = HeldState, !.error = out.error,
                                  !.held = "resolved"]
          /\ pendingApprovals' = out.state.pendingApprovals
          /\ ctx' = out.state.ctx
    /\ UNCHANGED <<messages, toolCallCount, summaries, toolHistory, toolHistoryArchived>>
    /\ UNCHANGED HelperFrame

HelperNext ==
    \/ Capture
    \/ Transport
    \/ Restore
    \/ Resolve

HelperSpec == HelperInit /\ [][HelperNext]_vars

-----------------------------------------------------------------------------
(* The agentCore node called directly on a state *)

\* bounds: the longest message list handed to the node, and the turns taken on it
MaxListLen == 3
MaxTurns == 2

PairingPlaceholder == "SUMMARIZED/DEFERRED: tool result missing in transcript"

\* the tool messages of the list whose id no assistant message of the list carries
OrphanToolMessage(msgs, m) ==
    m.role = "tool" /\ (m.tool_call_id = 0 \/ m.tool_call_id \notin AssistantCallIds(msgs))

\* phases 1 and 2 of normalizeBedrockToolPairing: the orphan tool messages are filtered out
dropOrphans(msgs) ==
    LET Keep(m) == ~OrphanToolMessage(msgs, m) IN SelectSeq(msgs, Keep)

\* the placeholders inserted for the tool uses of an assistant message
PairingPlaceholders(tcs) ==
    [j \in 1..Len(tcs) |->
        ToolMsg(tcs[j].id, IF tcs[j].name = "" THEN "unknown_tool" ELSE tcs[j].name,
                PairingPlaceholder)]

\* phase 3 of normalizeBedrockToolPairing, from index i on
RECURSIVE PairedFrom(_, _)
PairedFrom(msgs, i) ==
    IF i > Len(msgs) THEN msgs
    ELSE IF msgs[i].role # "assistant" \/ msgs[i].tool_calls = <<>>
    THEN PairedFrom(msgs, i + 1)
    ELSE IF /\ i < Len(msgs)
            /\ msgs[i + 1].role = "tool"
            /\ msgs[i + 1].tool_call_id = msgs[i].tool_calls[1].id
    THEN PairedFrom(msgs, i + 1)
    ELSE LET inserted == PairingPlaceholders(msgs[i].tool_calls) IN
         PairedFrom(SubSeq(msgs, 1, i) \o inserted \o SubSeq(msgs, i + 1, Len(msgs)),
                    i + Len(inserted) + 1)

normalizeBedrockToolPairing(msgs) == PairedFrom(dropOrphans(msgs), 1)

\* `${id}_${Date.now()}_${counter}`: an id no message carries
RenamedId(id, counter) == 100 * (counter + 1) + id

\* the ids of a message's tool calls, in the order of their first occurrence
RECURSIVE DistinctIds(_)
DistinctIds(tcs) ==
    IF tcs = <<>> THEN <<>>
    ELSE LET rest == DistinctIds(SubSeq(tcs, 1, Len(tcs) - 1))
             id == tcs[Len(tcs)].id
         IN  IF \E k \in 1..Len(rest) : rest[k] = id THEN rest ELSE Append(rest, id)

\* the id renamed in the assistant message i and in the tool messages after it, up to
\* the next assistant message
RenameAt(msgs, i, id, newId) ==
    LET later == {j \in (i + 1)..Len(msgs) : msgs[j].role = "assistant"}
        stop == IF later = {} THEN Len(msgs) + 1
                ELSE CHOOSE j \in later : \A k \in later : j <= k
    IN  [j \in 1..Len(msgs) |->
            IF j = i
            THEN [msgs[j] EXCEPT !.tool_calls =
                     [k \in 1..Len(@) |-> IF @[k].id = id THEN [@[k] EXCEPT !.id = newId]
                                          ELSE @[k]]]
            ELSE IF j > i /\ j < stop /\ msgs[j].role = "tool" /\ msgs[j].tool_call_id = id
            THEN [msgs[j] EXCEPT !.tool_call_id = newId]
            ELSE msgs[j]]

\* the loop over the ids of the assistant message i
RECURSIVE UniqueIdsOf(_, _, _, _)
UniqueIdsOf(st, i, ids, k) ==
    IF k > Len(ids) THEN st
    ELSE IF ids[k] \notin st.usedIds
    THEN UniqueIdsOf([st EXCEPT !.usedIds = @ \cup {ids[k]}], i, ids, k + 1)
    ELSE LET newId == RenamedId(ids[k], st.counter) IN
         UniqueIdsOf([msgs |-> RenameAt(st.msgs, i, ids[k], newId),
                      usedIds |-> st.usedIds \cup {newId},
                      counter |-> st.counter + 1], i, ids, k + 1)

\* the loop of ensureUniqueToolCallIds over the messages, from index i on
RECURSIVE UniqueFrom(_, _)
UniqueFrom(st, i) ==
    IF i > Len(st.msgs) THEN st.msgs
    ELSE IF st.msgs[i].role # "assistant" \/ st.msgs[i].tool_calls = <<>>
    THEN UniqueFrom(st, i + 1)
    ELSE UniqueFrom(UniqueIdsOf(st, i, DistinctIds(st.msgs[i].tool_calls), 1), i + 1)

ensureUniqueToolCallIds(msgs) == UniqueFrom([msgs |-> msgs, usedIds |-> {}, counter |-> 0], 1)

\* the list handed to the reasoning engine
normalizedMessages(msgs) == ensureUniqueToolCallIds(normalizeBedrockToolPairing(msgs))

\* a raw usage payload: each field absent (Undefined), a finite number or Infinity;
\* cached stands for the cached-token aliases, reasoning for the completion details
RawUsage(prompt, input, completion, output, total, totalCamel, cached) ==
    [prompt_tokens |-> prompt, input_tokens |-> input, completion_tokens |-> completion,
     output_tokens |-> output, total_tokens |-> total, totalTokens |-> totalCamel,
     cached_tokens |-> cached, reasoning_tokens |-> Undefined]

\* the number n + 1/2, and a value Number() turns into NaN
Fraction(n) == [kind |-> "fraction", n |-> n]
NonNumeric == [kind |-> "nan", n |-> 0]

\* num(...vals): the first value that is neither null nor NaN as a number
RECURSIVE num(_)
num(vals) ==
    IF vals = <<>> THEN Undefined
    ELSE IF Head(vals).kind \in {"undefined", "nan"} THEN num(Tail(vals))
    ELSE Head(vals)

\* safe(v): Number(v) when finite and non-negative, else 0
safe(v) == IF v.kind \in {"finite", "fraction"} /\ v.n >= 0 THEN v ELSE Finite(0)

\* (typeof v === 'number' ? v : 0)
NumberOrZero(v) == IF v.kind = "undefined" THEN Finite(0) ELSE v

\* a + b of two numbers
Plus(a, b) ==
    CASE a.kind = "nan" \/ b.kind = "nan" -> NonNumeric
      [] a.kind = "infinity" \/ b.kind = "infinity" -> Infinity
      [] a.kind = "fraction" /\ b.kind = "fraction" -> Finite(a.n + b.n + 1)
      [] a.kind = "fraction" \/ b.kind = "fraction" -> Fraction(a.n + b.n)
      [] OTHER -> Finite(a.n + b.n)

\* a || b: b when a is undefined, 0 or NaN
OrElse(a, b) == IF a.kind \in {"undefined", "nan"} \/ a = Finite(0) THEN b ELSE a

\* a response without a usage payload, and the undefined normalizeUsage returns for it
NoUsage == [absent |-> TRUE]

\* normalizeUsage(raw)
normalizeUsage(raw) ==
    IF raw = NoUsage THEN NoUsage
    ELSE
    LET prompt == num(<<raw.prompt_tokens, raw.input_tokens>>)
        completion == num(<<raw.completion_tokens, raw.output_tokens>>)
        total == num(<<raw.total_tokens, raw.totalTokens,
                       Plus(NumberOrZero(prompt), NumberOrZero(completion))>>)
    IN  [prompt_tokens |-> safe(prompt),
         completion_tokens |-> safe(completion),
         total_tokens |->
             safe(OrElse(total, Plus(OrElse(prompt, Finite(0)), OrElse(completion, Finite(0))))),
         cached_tokens |-> safe(raw.cached_tokens),
         reasoning_tokens |-> safe(raw.reasoning_tokens)]

ModelNames == {"model-a", "model-b"}

NoTotals == [input |-> Finite(0), output |-> Finite(0), total |-> Finite(0),
             cachedInput |-> Finite(0)]

\* state.usage || { perRequest: [], totals: {} } (a model without totals has zeros)
EmptyUsage == [perRequest |-> <<>>, totals |-> [name \in ModelNames |-> NoTotals]]

\* the record pushed without the running totals
recordUsageUnsummed(usage, normalized, modelName) ==
    [usage EXCEPT !.perRequest =
        Append(@, [modelName |-> modelName, usage |-> normalized,
                   turn |-> Len(usage.perRequest) + 1,
                   cachedInput |-> normalized.cached_tokens])]

\* usage tracking of agentCore: one record pushed, the totals of the model raised
recordUsage(usage, normalized, modelName) ==
    [perRequest |->
        Append(usage.perRequest,
               [modelName |-> modelName, usage |-> normalized,
                turn |-> Len(usage.perRequest) + 1,
                cachedInput |-> normalized.cached_tokens]),
     totals |->
        [usage.totals EXCEPT ![modelName] =
            [input |-> Plus(@.input, normalized.prompt_tokens),
             output |-> Plus(@.output, normalized.completion_tokens),
             total |-> Plus(@.total, normalized.total_tokens),
             cachedInput |-> Plus(@.cachedInput, normalized.cached_tokens)]]]

\* the message lists handed to the node
CoreAlphabet ==
    {UserMsg("hi"), AssistantText("ok"), AssistantCalls("", <<ToolCall(1, "tool")>>),
     AssistantCalls("", <<ToolCall(1, "tool"), ToolCall(2, "tool")>>),
     AssistantCalls("", <<ToolCall(1, "tool"), ToolCall(1, "tool")>>),
     ToolMsg(1, "tool", "result"), ToolMsg(2, "tool", "result")}

CoreLists == UNION {[1..n -> CoreAlphabet] : n \in 0..MaxListLen}

CoreResponses == {AssistantText("ok"), AssistantCalls("", <<ToolCall(1, "tool")>>)}

\* the usage payloads of the responses
CoreUsages ==
    {NoUsage,
     RawUsage(Finite(10), Undefined, Finite(5), Undefined, Undefined, Undefined, Undefined),
     RawUsage(Undefined, Finite(3), Undefined, Finite(4), Finite(9), Undefined, Finite(2))}

\* the calls of the node: position, the list sent to the engine, the turns taken, the
\* turns whose response carried a usage payload, state.usage, and usage before the turn
CoreIdle ==
    [op |-> "agentCore", pc |-> "ready", sent |-> <<>>, turns |-> 0, payloads |-> 0,
     usage |-> EmptyUsage, usageBefore |-> EmptyUsage]

CoreInit ==
    /\ opts \in {o \in AgentOptions : o.maxToolCalls = Undefined /\ ~o.outputSchema
                                      /\ ~o.guardrails /\ o.summarization = SumUndefined}
    /\ config = QuietConfig
    /\ pc = "idle"
    /\ messages \in CoreLists
    /\ toolCallCount = 0
    /\ ctx = EmptyCtx
    /\ summaries = <<>>
    /\ guardrailResult = 0
    /\ iterations = 0
    /\ resumeStage = ""
    /\ pausedStage = ""
    /\ cancel = NoCancel
    /\ smart = SmartOff
    /\ env = FullEnv
    /\ obs = NoObs
    /\ toolHistory = <<>>
    /\ toolHistoryArchived = <<>>
    /\ pendingApprovals = <<>>
    /\ call = CoreIdle

CoreFrame ==
    <<opts, config, pc, toolCallCount, ctx, summaries, guardrailResult, iterations,
      resumeStage, pausedStage, cancel, smart, env, obs, toolHistory, toolHistoryArchived,
      pendingApprovals>>

\* agentCore(state), up to the await of the engine
CoreCall ==
    /\ call.op = "agentCore"
    /\ call.pc = "ready"
    /\ call.turns < MaxTurns
    /\ call' = [call EXCEPT !.pc = "engine", !.sent = normalizedMessages(messages)]
    /\ UNCHANGED <<messages, CoreFrame>>

\* the engine has answered: the response is appended, its usage recorded
CoreEngineReturns ==
    /\ call.op = "agentCore"
    /\ call.pc = "engine"
    /\ \E response \in CoreResponses, raw \in CoreUsages, modelName \in ModelNames :
          /\ raw = NoUsage => modelName = "model-a"
          /\ messages' = Append(messages, response)
          /\ call' = [call EXCEPT
                 !.pc = "ready",
                 !.turns = @ + 1,
                 !.payloads = IF raw = NoUsage THEN @ ELSE @ + 1,
                 !.usageBefore = call.usage,
                 !.usage = IF raw = NoUsage THEN @
                           ELSE recordUsage(@, normalizeUsage(raw), modelName)]
    /\ UNCHANGED CoreFrame

\* the engine has thrown: agentCore rethrows
CoreEngineThrows ==
    /\ call.op = "agentCore"
    /\ call.pc = "engine"
    /\ call' = [call EXCEPT !.pc = "ready", !.turns = @ + 1, !.usageBefore = call.usage]
    /\ UNCHANGED <<messages, CoreFrame>>

CoreNext ==
    \/ CoreCall
    \/ CoreEngineReturns
    \/ CoreEngineThrows

CoreSpec == CoreInit /\ [][CoreNext]_vars

-----------------------------------------------------------------------------
(* The token estimator and the usage normalizer called directly *)

\* bound: the longest list whose estimate is taken
MaxEstimateLen == 3

\* messages of several sizes: plain, non-ASCII, with a name, with tool calls, empty
EstimateAlphabet ==
    {UserMsg("hi"), UserMsg("<cjk>"), UserMsg(""), AssistantText("ok"),
     AssistantCalls("", <<ToolCall(1, "tool")>>), ToolMsg(1, "tool", "result"),
     UserMsg("<big>")}

\* the raw counts: absent, negative, zero, positive, infinite, fractional, not a number
RawCounts ==
    {Undefined, Finite(0 - 5), Finite(0), Finite(5), Finite(10), Infinity, Fraction(1),
     NonNumeric}

\* the arguments of normalizeUsage: no payload, or a payload of raw counts
RawUsages ==
    {NoUsage} \cup
    {RawUsage(p, i, c, o, t, tc, cached) :
        p \in RawCounts, i \in {Undefined, Finite(3)}, c \in RawCounts,
        o \in {Undefined, Finite(4)}, t \in {Undefined, Finite(9)},
        tc \in {Undefined, Finite(7)}, cached \in {Undefined, Finite(2), NonNumeric}}

\* the estimate of the list held, and the estimate before the last append (-1: none)
EstimateIdle == [op |-> "estimate", estimate |-> 0, previous |-> 0 - 1]

UsageIdle == [op |-> "usage", pc |-> "ready", raw |-> <<>>, normalized |-> <<>>]

UtilInit ==
    /\ opts \in {o \in AgentOptions : o.maxToolCalls = Undefined /\ ~o.outputSchema
                                      /\ ~o.guardrails /\ o.summarization = SumUndefined}
    /\ config = QuietConfig
    /\ pc = "idle"
    /\ messages = <<>>
    /\ toolCallCount = 0
    /\ ctx = EmptyCtx
    /\ summaries = <<>>
    /\ guardrailResult = 0
    /\ iterations = 0
    /\ resumeStage = ""
    /\ pausedStage = ""
    /\ cancel = NoCancel
    /\ smart = SmartOff
    /\ env = FullEnv
    /\ obs = NoObs
    /\ toolHistory = <<>>
    /\ toolHistoryArchived = <<>>
    /\ pendingApprovals = <<>>
    /\ call \in {[EstimateIdle EXCEPT !.estimate = countMessagesTokens(<<>>)], UsageIdle}

\* countMessagesTokens(messages) taken after a message has been appended
EstimateAppended ==
    /\ call.op = "estimate"
    /\ Len(messages) < MaxEstimateLen
    /\ \E m \in EstimateAlphabet :
          /\ messages' = Append(messages, m)
          /\ call' = [call EXCEPT !.previous = call.estimate,
                                  !.estimate = countMessagesTokens(Append(messages, m))]
    /\ UNCHANGED CoreFrame

\* normalizeUsage(raw)
UsageNormalized ==
    /\ call.op = "usage"
    /\ call.pc = "ready"
    /\ \E raw \in RawUsages :
          call' = [call EXCEPT !.pc = "done", !.raw = raw, !.normalized = normalizeUsage(raw)]
    /\ UNCHANGED <<messages, CoreFrame>>

UtilNext ==
    \/ EstimateAppended
    \/ UsageNormalized

UtilSpec == UtilInit /\ [][UtilNext]_vars

-----------------------------------------------------------------------------
(* C1 *)

\* the ceiling L of the claim: max(3 * maxToolCalls + 10, 40) for a finite maxToolCalls
\* (50 when none is given), 100 for Infinity
ClaimedCeiling ==
    LET m == MergedLimit(opts, config) IN
    IF m.kind = "infinity" THEN 100
    ELSE Max(3 * (IF m.kind = "undefined" THEN 50 ELSE m.n) + 10, 40)

\* C1: one invoke of createAgent runs at most L iterations of the turn loop and invokes
\* the reasoning engine at most L + 1 times, whatever the engine, the tool-dispatch
\* node and the guardrail evaluator answer, and it always comes to an end
C1_IterationCeiling ==
    /\ [](pc # "idle" => /\ iterations <= ClaimedCeiling
                         /\ obs.engineCalls <= ClaimedCeiling + 1
                         /\ obs.engineCalls <= iterations + 1)
    /\ [](pc # "idle" => Variant >= 0)
    /\ [][pc # "idle" => Variant' < Variant]_vars
    /\ []CanStep

\* the ceiling is reached, and the forced attempt follows it
C1_Witness ==
    /\ pc = "force_agent"
    /\ iterations = ClaimedCeiling
    /\ obs.stop = "ceiling"
    /\ obs.engineCalls = ClaimedCeiling + 1

-----------------------------------------------------------------------------
(* C2 *)

NoticeCount(msgs) == Cardinality({i \in 1..Len(msgs) : msgs[i] = UserMsg(NoticeText)})

\* the run of the claim: a finite limit, no guardrails, no cancellation, no pause, the
\* history within the token budget, every response of the engine requesting a tool call
\* and every dispatch raising toolCallCount by one
C2_Scenario ==
    /\ pc = "returned"
    /\ obs.input = <<UserMsg("hi")>>
    /\ MaxToolCalls(opts, config).kind = "finite"
    /\ ~opts.guardrails
    /\ ~isCancelled(cancel)
    /\ ctx.paused = NoPaused
    /\ obs.stop # "budget"
    /\ obs.textResponses = 0
    /\ obs.uncountedDispatches = 0

-----------------------------------------------------------------------------
(* C3 *)

\* the limit of the claim: the one merged from agent options and invoke config, 50
\* when neither gives one
ClaimedMaxToolCalls ==
    LET m == MergedLimit(opts, config) IN IF m.kind = "undefined" THEN Finite(50) ELSE m

BelowCeiling ==
    ClaimedMaxToolCalls.kind = "finite" => toolCallCount < ClaimedMaxToolCalls.n

-----------------------------------------------------------------------------
(* C4 *)

\* C4: when a cancellation cause has fired before invoke is called, the run returns
\* normally with ctx.__cancelled set, the reason being aborted, else cancelled, else
\* timeout; the reasoning engine is never invoked and the messages stay the input's
C4_AsStated ==
    (obs.cancelledAtInvoke /\ pc # "idle") =>
        /\ pc # "rejected"
        /\ obs.engineCalls = 0
        /\ messages = obs.input
        /\ pc = "returned" =>
              ctx.cancelled.reason =
                  IF cancel.signal THEN "aborted"
                  ELSE IF cancel.token THEN "cancelled" ELSE "timeout"

-----------------------------------------------------------------------------
(* C5 *)

\* C5: once the loop has stopped for a pending approval, a cancellation or an accepted
\* pause, the invocation makes no further reasoning-engine call and no tool dispatch
C5_AsStated ==
    obs.stop \in {"approval", "cancelled", "paused"} =>
        /\ ~obs.engineAfterStop
        /\ ~obs.toolsAfterStop

-----------------------------------------------------------------------------
(* C6 *)

-----------------------------------------------------------------------------
(* C7 *)

GuardrailMessages(msgs) ==
    Cardinality({i \in 1..Len(msgs) : msgs[i].role = "assistant" /\ msgs[i].name = "guardrail"})

\* C7: after a block by the request-phase guardrails the history holds exactly one
\* guardrail message, ctx.__guardrailBlocked is set and the run halts: no engine call
\* and no tool dispatch follow in that invocation
C7_AsStated ==
    obs.stop = "blocked_request" =>
        /\ GuardrailMessages(messages) = 1
        /\ ctx.guardrailBlocked = "request"
        /\ ~obs.engineAfterStop
        /\ ~obs.toolsAfterStop

-----------------------------------------------------------------------------
(* C8 *)

\* C8: the step that blocks a response leaves the message count and every earlier message
\* as they were and puts a guardrail-authored assistant message in the place of the
\* response; the tool calls of the replaced response are never handed to the dispatch node
C8_BlockedResponseReplaced ==
    /\ [][(ctx.guardrailBlocked # "response" /\ ctx'.guardrailBlocked = "response") =>
            /\ Len(messages') = Len(messages)
            /\ SubSeq(messages', 1, Len(messages) - 1) = SubSeq(messages, 1, Len(messages) - 1)
            /\ LastMsg(messages').role = "assistant"
            /\ LastMsg(messages').name = "guardrail"
            /\ LastMsg(messages').tool_calls = <<>>
            /\ obs'.replaced = LastMsg(messages)]_vars
    /\ []((ctx.guardrailBlocked = "response" /\ pc \in {"tools", "force_tools"}) =>
            CallIds(LastToolCalls(messages)) \cap CallIds(obs.replaced.tool_calls) = {})

\* a response asking for a tool was blocked and replaced, and the run returned without
\* any dispatch
C8_Witness ==
    /\ pc = "returned"
    /\ ctx.guardrailBlocked = "response"
    /\ obs.replaced.tool_calls # <<>>
    /\ LastMsg(messages).name = "guardrail"
    /\ obs.dispatches = 0

-----------------------------------------------------------------------------
(* C9 *)

\* C9: the engine is never invoked on a history whose countMessagesTokens exceeds the
\* ceiling, and a stop at the budget gate sets ctx.__needsSummarization
C9_AsStated ==
    /\ ~obs.engineOverBudget
    /\ obs.stop = "budget" => ctx.needsSummarization

-----------------------------------------------------------------------------
(* C10 *)

\* C10: an invoke of createSmartAgent whose history was over the token ceiling and whose
\* summarization passes changed nothing has, when it returns, invoked the reasoning
\* engine on the conversation
C10_AsStated ==
    (smart.pc = "returned" /\ smart.over /\ smart.changes = 0) => smart.engineInvoked

-----------------------------------------------------------------------------
(* C11 *)

\* every tool message of the history already carries the placeholder
NoRawToolMessage(msgs) ==
    \A i \in 1..Len(msgs) : msgs[i].role = "tool" => msgs[i].content = "SUMMARIZED"

\* C11: a summarization pass on a history without a tool message whose content differs
\* from the placeholder returns no state change and does not invoke the reasoning engine
C11_NothingToCompress ==
    (call.op = "summarize" /\ call.pc # "ready" /\ NoRawToolMessage(call.before.messages)) =>
        /\ call.pc = "returned"
        /\ call.outcome = "refused"
        /\ call.engineCalls = call.engineBefore
        /\ NodeState = call.before

\* an enabled summarizer was called on a history whose only tool message is a
\* placeholder, and has returned
C11_Witness ==
    /\ call.op = "summarize"
    /\ call.pc = "returned"
    /\ summarizationEnabled(opts)
    /\ NoRawToolMessage(call.before.messages)
    /\ \E i \in 1..Len(call.before.messages) : call.before.messages[i].role = "tool"
    /\ call.outcome = "refused"

-----------------------------------------------------------------------------
(* C12 *)

-----------------------------------------------------------------------------
(* C13 *)

\* the tool message at position i answers a tool call of an earlier assistant message
AnswersEarlierCall(msgs, i) ==
    \E j \in 1..(i - 1) :
        /\ msgs[j].role = "assistant"
        /\ \E k \in 1..Len(msgs[j].tool_calls) : msgs[j].tool_calls[k].id = msgs[i].tool_call_id

-----------------------------------------------------------------------------
(* C14 *)

\* the output recorded by the entry e was replaced by the placeholder in this pass
OutputReplaced(e) ==
    /\ call.before.messages[e.executionId].content # "SUMMARIZED"
    /\ \E i \in 1..Len(messages) :
          /\ messages[i].role = "tool"
          /\ messages[i].tool_call_id = e.tool_call_id
          /\ messages[i].content = "SUMMARIZED"

\* C14 as stated: after a successful pass every toolHistory entry whose output was
\* replaced by the placeholder is no longer in toolHistory and is found in
\* toolHistoryArchived by its executionId, with its output
C14_AsStated ==
    (call.op = "summarize" /\ call.pc = "returned" /\ call.outcome = "done") =>
        \A n \in 1..Len(call.before.toolHistory) :
            LET e == call.before.toolHistory[n] IN
            OutputReplaced(e) =>
                /\ \A k \in 1..Len(toolHistory) : toolHistory[k].executionId # e.executionId
                /\ \E k \in 1..Len(toolHistoryArchived) :
                      /\ toolHistoryArchived[k].executionId = e.executionId
                      /\ toolHistoryArchived[k].output = e.output

-----------------------------------------------------------------------------
(* C15 *)

\* the synthetic summary exchange sits at positions i and i + 1
SummaryExchangeAt(msgs, i) ==
    /\ msgs[i].role = "assistant"
    /\ Len(msgs[i].tool_calls) = 1
    /\ msgs[i].tool_calls[1].name = "summarize_context"
    /\ msgs[i + 1].role = "tool"
    /\ msgs[i + 1].tool_call_id = msgs[i].tool_calls[1].id

\* the three-turn scenario: the ceiling lies between the estimates after the first and
\* after the second fetched payload, the summarizer's engine works, two tool calls were
\* made and counted, and the third model call gave the final answer
C15_Scenario ==
    /\ smart.pc = "returned"
    /\ opts.summarization = SumObject(TRUE, ScenarioMaxTokens)
    /\ ~smart.summarizerDown
    /\ smart.engineTotal = 3
    /\ toolCallCount = 2
    /\ LastToolCalls(messages) = <<>>

\* exactly one pass ran between every over-ceiling budget gate with a compressible tool
\* message and the engine call that followed it
C15_OnePassPerGate == smart.gaps \subseteq {1}

\* C15 as stated: one summarization pass between such a budget gate and the next engine
\* call; and the three-turn scenario ends with exactly one summarization event, the
\* synthetic summary exchange in the history and a summaries array of length 1
C15_AsStated ==
    /\ C15_OnePassPerGate
    /\ C15_Scenario =>
          /\ smart.events = 1
          /\ \E i \in 1..(Len(messages) - 1) : SummaryExchangeAt(messages, i)
          /\ Len(summaries) = 1

-----------------------------------------------------------------------------
(* C16 *)

\* the durable fields of two states are equal
DurableEqual(a, b) ==
    /\ a.messages = b.messages
    /\ a.toolCallCount = b.toolCallCount
    /\ a.toolHistory = b.toolHistory
    /\ a.summaries = b.summaries
    /\ a.pendingApprovals = b.pendingApprovals

\* every value recorded from a tool in the state is one JSON can write
JsonRepresentable(st) ==
    /\ \A i \in 1..Len(st.toolHistory) : st.toolHistory[i].output # "<NaN>"
    /\ \A i \in 1..Len(st.pendingApprovals) :
          st.pendingApprovals[i].args # "<NaN>" /\ st.pendingApprovals[i].approvedArgs # "<NaN>"

-----------------------------------------------------------------------------
(* C17 *)

\* the records of the state a resolution names, by record id or by tool call id
Named(approvals, id) ==
    {i \in 1..Len(approvals) : approvals[i].id = id \/ approvals[i].toolCallId = id}

StatusRank(status) ==
    IF status = "pending" THEN 0 ELSE IF status = "executed" THEN 2 ELSE 1

\* C17: a resolution that names no record fails with 'not found'; one that names a record
\* that is not pending fails with 'already completed'; a failed resolution changes
\* nothing, and no resolution moves the status of a record backwards
C17_ResolveFails ==
    (call.op = "helper" /\ call.held = "resolved") =>
        LET named == Named(call.before.pendingApprovals, call.resolution.id) IN
        /\ named = {} => call.error = "not found"
        /\ (\E i \in named : call.before.pendingApprovals[i].status # "pending")
              => call.error = "already completed"
        /\ (\E i \in named : call.before.pendingApprovals[i].status = "pending")
              => call.error = ""
        /\ call.error # "" => HeldState = call.before
        /\ Len(pendingApprovals) = Len(call.before.pendingApprovals)
        /\ \A i \in 1..Len(pendingApprovals) :
              StatusRank(pendingApprovals[i].status)
                  >= StatusRank(call.before.pendingApprovals[i].status)

\* the approval resolved by the first resolution was resolved a second time, and the
\* second resolution failed
C17_Witness ==
    /\ call.op = "helper"
    /\ call.held = "resolved"
    /\ call.resolves = 2
    /\ call.error = "already completed"
    /\ \E i \in Named(call.before.pendingApprovals, call.resolution.id) :
          /\ call.before.pendingApprovals[i].decidedAt = 1
          /\ pendingApprovals[i].status \in {"approved", "rejected"}

-----------------------------------------------------------------------------
(* C18 *)

-----------------------------------------------------------------------------
(* C19 *)

CheckpointGates == {"before_guardrails", "after_agent", "after_tools"}

\* C19: a run stopped by an accepted pause at a checkpoint gate returns a state whose
\* ctx.__paused records that gate and the iteration, keeps the messages and the tool call
\* count of the input, and invokes neither the reasoning engine nor a tool after the pause
C19_AsStated ==
    (pc = "returned" /\ obs.stop = "paused" /\ pausedStage \in CheckpointGates) =>
        /\ ctx.paused = [stage |-> pausedStage, iteration |-> iterations]
        /\ Len(messages) >= Len(obs.input)
        /\ SubSeq(messages, 1, Len(obs.input)) = obs.input
        /\ toolCallCount >= obs.inputCount
        /\ ~obs.engineAfterStop
        /\ ~obs.toolsAfterStop

-----------------------------------------------------------------------------
(* C20 *)

\* C20: an invocation handed a state that carries ctx.__cancelled invokes the reasoning
\* engine zero times and dispatches no tool call
C20_AsStated ==
    obs.enteredCancelled => obs.engineCalls = 0 /\ obs.dispatches = 0

-----------------------------------------------------------------------------
(* C21 *)

\* the loop has ended with an output schema configured, no structured-output finalize and
\* a last message that requests no tool calls
LoopEndedUnfinalized ==
    /\ pc = "after_loop"
    /\ opts.outputSchema
    /\ ~ctx.finalizedDueToStructuredOutput
    /\ LastToolCalls(messages) = <<>>

AfterLoopPositions == {"force_agent", "force_tools", "final", "returned", "rejected"}

\* the step after the loop appends the instruction and invokes the engine once
ForcesOnce ==
    /\ pc' = "force_agent"
    /\ messages' = Append(messages, SystemMsg(ForceText))
    /\ obs'.engineCalls = obs.engineCalls + 1

\* C21 as stated: whenever the loop ends that way, the controller appends the
\* force-finalize instruction and invokes the engine once more, and the engine is not
\* invoked again in that invocation
C21_AsStated ==
    [][/\ (LoopEndedUnfinalized /\ pc' # pc) => ForcesOnce
       /\ pc \in AfterLoopPositions => obs'.engineCalls = obs.engineCalls]_vars

\* C21 amended: the same when the state does not carry the force-finalize marker of an
\* earlier invocation; when it does, the controller appends nothing and makes no
\* further engine invocation
C21_ForcedOnce ==
    [][/\ (LoopEndedUnfinalized /\ pc' # pc /\ ~ctx.structuredOutputForceFinalize)
              => ForcesOnce /\ ctx'.structuredOutputForceFinalize
       /\ (LoopEndedUnfinalized /\ pc' # pc /\ ctx.structuredOutputForceFinalize)
              => pc' = "final" /\ messages' = messages /\ obs'.engineCalls = obs.engineCalls
       /\ pc \in AfterLoopPositions => obs'.engineCalls = obs.engineCalls]_vars

\* a run whose engine answered with text under an output schema was forced once and has
\* returned with the engine invoked twice
C21_Witness ==
    /\ pc = "returned"
    /\ opts.outputSchema
    /\ obs.stop = "done"
    /\ obs.forced = 1
    /\ obs.engineCalls = 2
    /\ \E i \in 1..Len(messages) : messages[i] = SystemMsg(ForceText)

-----------------------------------------------------------------------------
(* C22 *)

EngineFails == obs'.engineFailures > obs.engineFailures

NoCallAfterFailure == obs.engineFailures > 0 => obs'.engineCalls = obs.engineCalls

\* C22 as stated: wherever the controller invokes the engine, a failure of the call makes
\* invoke reject, and the engine is not invoked again in that run
C22_AsStated ==
    [][(EngineFails => pc' = "rejected") /\ NoCallAfterFailure]_vars

\* C22 amended: a failure of an engine call of the turn loop makes invoke reject with
\* the state as it was; a failure of the forced attempt after the loop is caught and the
\* run goes on to its return with the messages as they were; after either failure the
\* engine is not invoked again
C22_EngineFailure ==
    [][/\ (EngineFails /\ pc = "agent") =>
              pc' = "rejected" /\ messages' = messages /\ toolCallCount' = toolCallCount
       /\ (EngineFails /\ pc = "force_agent") =>
              pc' = "final" /\ messages' = messages /\ toolCallCount' = toolCallCount
       /\ EngineFails => pc \in {"agent", "force_agent"} /\ obs.engineFailures = 0
       /\ NoCallAfterFailure]_vars

\* the second engine call of the turn loop failed and invoke rejected
C22_Witness ==
    /\ pc = "rejected"
    /\ obs.engineFailures = 1
    /\ obs.engineCalls = 2
    /\ obs.forced = 0

-----------------------------------------------------------------------------
(* C23 *)

\* C23: a throw of the event sink during the delivery of an event does not make invoke
\* reject and leaves the run as it goes with a sink that returns: the response of the
\* engine is appended to the messages
C23_AsStated ==
    [][obs'.sinkFailures > obs.sinkFailures =>
          pc' # "rejected" /\ Len(messages') = Len(messages) + 1]_vars

-----------------------------------------------------------------------------
(* C24 *)

\* C24: in the list handed to the reasoning engine every tool message answers a tool call
\* of an assistant message at an earlier position of that list
C24_AsStated ==
    (call.op = "agentCore" /\ call.pc = "engine") =>
        \A i \in 1..Len(call.sent) :
            call.sent[i].role = "tool" => AnswersEarlierCall(call.sent, i)

-----------------------------------------------------------------------------
(* C25 *)

IsPrefix(a, b) == Len(a) <= Len(b) /\ SubSeq(b, 1, Len(a)) = a

\* C25 as stated: every step of a createAgent run leaves the previous messages as an
\* unchanged prefix of the new messages
C25_AsStated ==
    [][pc # "idle" => IsPrefix(messages, messages')]_vars

\* C25 amended: every step leaves the previous messages as an unchanged prefix of the
\* new ones, except the step of the response guardrails, which on a blocking incident
\* replaces the last message (the blocked response) by the guardrail message and on
\* another incident annotates the metadata of the last message, leaving the others
C25_AppendOnly ==
    [][pc # "idle" =>
          \/ IsPrefix(messages, messages')
          \/ /\ pc = "resp_guard"
             /\ ctx'.guardrailBlocked = ""
             /\ IsPrefix([messages EXCEPT ![Len(messages)].meta = "warn"], messages')
          \/ /\ pc = "resp_guard"
             /\ ctx'.guardrailBlocked = "response"
             /\ Len(messages') = Len(messages)
             /\ IsPrefix(SubSeq(messages, 1, Len(messages) - 1), messages')
             /\ LastMsg(messages').role = "assistant"
             /\ LastMsg(messages').tool_calls = <<>>]_vars

\* a run resumed on a list that ends with an unanswered tool call has had its engine
\* called and the response appended to the list as it was
C25_Witness ==
    /\ pc \notin {"idle", "agent"}
    /\ obs.engineCalls = 1
    /\ obs.input = <<UserMsg("hi"), PendingCall>>
    /\ Len(messages) >= 3
    /\ SubSeq(messages, 1, 2) = obs.input
    /\ messages[3].role = "assistant"

-----------------------------------------------------------------------------
(* C26 *)

\* the sum of a usage field over the records of a model among the first n records
RECURSIVE SumOver(_, _, _, _)
SumOver(records, n, modelName, field) ==
    IF n = 0 THEN Finite(0)
    ELSE Plus(SumOver(records, n - 1, modelName, field),
              IF records[n].modelName = modelName THEN records[n].usage[field] ELSE Finite(0))

\* C26: state.usage holds one record per turn whose response carried a usage payload,
\* each with turn equal to its position; a turn leaves the earlier records where they
\* were; and the totals of every model are the sums over its records
C26_UsageLedger ==
    call.op = "agentCore" =>
        LET records == call.usage.perRequest
            Sum(name, field) == SumOver(records, Len(records), name, field)
        IN  /\ Len(records) = call.payloads
            /\ \A i \in 1..Len(records) : records[i].turn = i
            /\ IsPrefix(call.usageBefore.perRequest, records)
            /\ Len(records) <= Len(call.usageBefore.perRequest) + 1
            /\ \A name \in ModelNames :
                  /\ call.usage.totals[name].input = Sum(name, "prompt_tokens")
                  /\ call.usage.totals[name].output = Sum(name, "completion_tokens")
                  /\ call.usage.totals[name].total = Sum(name, "total_tokens")
                  /\ call.usage.totals[name].cachedInput = Sum(name, "cached_tokens")

\* two turns on two models have both carried a usage payload
C26_Witness ==
    /\ call.op = "agentCore"
    /\ call.turns = 2
    /\ Len(call.usage.perRequest) = 2
    /\ call.usage.perRequest[1].modelName # call.usage.perRequest[2].modelName
    /\ call.usage.totals["model-a"].total.n > 0
    /\ call.usage.totals["model-b"].cachedInput.n > 0

-----------------------------------------------------------------------------
(* C27 *)

-----------------------------------------------------------------------------
(* C28 *)

\* C28: a run that has returned blocked by a guardrail or finalized for the tool-call
\* limit has, as the last message of its transcript, an assistant message with text and
\* without tool calls
C28_AsStated ==
    (pc = "returned" /\ (ctx.guardrailBlocked # "" \/ ctx.finalizedDueToToolLimit)) =>
        /\ LastMsg(messages).role = "assistant"
        /\ LastMsg(messages).content # ""
        /\ LastMsg(messages).tool_calls = <<>>

-----------------------------------------------------------------------------
(* C29 *)

\* C29: the estimate of a list is at least the estimate of the list before its last
\* message was appended, and the estimate of the empty list is 0
C29_EstimateMonotone ==
    call.op = "estimate" =>
        /\ call.previous <= call.estimate
        /\ messages = <<>> => call.estimate = 0

\* a non-ASCII message was appended to a list that ends with a large message
C29_Witness ==
    /\ call.op = "estimate"
    /\ Len(messages) = 3
    /\ messages[2] = UserMsg("<big>")
    /\ messages[3] = UserMsg("<cjk>")
    /\ call.previous > 0
    /\ call.estimate > call.previous

-----------------------------------------------------------------------------
(* C30 *)

\* C30: for a raw usage without a total under either alias the normalized total is the
\* sum of the normalized prompt and completion counts; prompt 10 and completion 5 alone
\* give 10, 5, 15 and zero details
C30_AsStated ==
    (call.op = "usage" /\ call.pc = "done" /\ call.raw # NoUsage
        /\ call.raw.total_tokens = Undefined /\ call.raw.totalTokens = Undefined) =>
        /\ call.normalized.total_tokens =
              Plus(call.normalized.prompt_tokens, call.normalized.completion_tokens)
        /\ call.raw = RawUsage(Finite(10), Undefined, Finite(5), Undefined, Undefined,
                               Undefined, Undefined) =>
              call.normalized = [prompt_tokens |-> Finite(10),
                                 completion_tokens |-> Finite(5),
                                 total_tokens |-> Finite(15), cached_tokens |-> Finite(0),
                                 reasoning_tokens |-> Finite(0)]

-----------------------------------------------------------------------------
(* C31 *)

WholeNonNegative(v) == v.kind = "finite" /\ v.n >= 0

\* C31: normalizeUsage returns undefined for an absent payload, and for every other
\* payload a record whose numeric fields are all non-negative whole numbers
C31_AsStated ==
    (call.op = "usage" /\ call.pc = "done") =>
        IF call.raw = NoUsage THEN call.normalized = NoUsage
        ELSE /\ call.normalized # NoUsage
             /\ \A field \in DOMAIN call.normalized : WholeNonNegative(call.normalized[field])

-----------------------------------------------------------------------------
(* C32 *)

\* the positions of the tool messages of a list that answer the id
AnswersOf(msgs, id) == {j \in 1..Len(msgs) : msgs[j].role = "tool" /\ msgs[j].tool_call_id = id}

\* C32: in the list sent to the engine the messages right after an assistant message
\* with tool calls are tool messages, one for each of its ids, and no id is answered by
\* more than one tool message
C32_AsStated ==
    (call.op = "agentCore" /\ call.pc = "engine") =>
        /\ \A i \in 1..Len(call.sent) :
              (call.sent[i].role = "assistant" /\ call.sent[i].tool_calls # <<>>) =>
                  LET ids == CallIds(call.sent[i].tool_calls)
                      after == (i + 1)..(i + Cardinality(ids))
                  IN  /\ i + Cardinality(ids) <= Len(call.sent)
                      /\ \A j \in after : call.sent[j].role = "tool"
                      /\ \A id \in ids : \E j \in after : call.sent[j].tool_call_id = id
        /\ \A j \in 1..Len(call.sent) :
              call.sent[j].role = "tool" =>
                  Cardinality(AnswersOf(call.sent, call.sent[j].tool_call_id)) = 1

-----------------------------------------------------------------------------
(* C33 *)

\* the tool calls of a list, each as <<position of the message, position in the message>>
CallSlots(msgs) ==
    {<<i, k>> \in (1..Len(msgs)) \X (1..2) :
        msgs[i].role = "assistant" /\ k <= Len(msgs[i].tool_calls)}

\* no id is carried by tool calls of two assistant messages
UniqueAcrossMessages(msgs) ==
    \A a, b \in CallSlots(msgs) :
        a[1] # b[1] => msgs[a[1]].tool_calls[a[2]].id # msgs[b[1]].tool_calls[b[2]].id

\* C33: in the list sent to the engine no id is carried by more than one tool call, in
\* different assistant messages or in the same one
C33_AsStated ==
    (call.op = "agentCore" /\ call.pc = "engine") =>
        \A a, b \in CallSlots(call.sent) :
            a # b =>
                call.sent[a[1]].tool_calls[a[2]].id # call.sent[b[1]].tool_calls[b[2]].id

-----------------------------------------------------------------------------
(* C34 *)

\* the engine is awaited on a history the request guardrails have evaluated
EngineOnEvaluated == pc \in {"agent", "force_agent"} => obs.requestEvaluated = messages

\* the response of this run is dispatched, or returned as the answer of a run that was
\* not paused, only after the response guardrails have evaluated it
ResponseEvaluatedFirst ==
    (pc \in {"tools", "force_tools"} \/ (pc = "returned" /\ pausedStage = ""))
        => ~obs.unevaluated

\* C34: with guardrails configured the engine is invoked only on a history the request
\* guardrails have evaluated, and a response is dispatched or returned only after the
\* response guardrails have evaluated it
C34_AsStated ==
    (opts.guardrails /\ smart.pc = "off" /\ obs.requestGates = obs.requestEvals)
        => (EngineOnEvaluated /\ ResponseEvaluatedFirst)

-----------------------------------------------------------------------------
(* C35 *)

\* C35: a pass of the request gate starts an evaluation exactly when guardrails are
\* configured and the message count differs from the count the store holds; no other
\* step starts one; and an evaluation records the count it was made at
C35_OncePerCount ==
    [][/\ obs'.requestGates = obs.requestGates + 1 =>
             (pc' = "req_guard" <=>
                 (opts.guardrails /\ ctx.guardrailStore.lastRequestLength # Len(messages)))
       /\ (pc' = "req_guard" /\ pc # "req_guard") => obs'.requestGates = obs.requestGates + 1
       /\ obs'.requestEvals = obs.requestEvals + 1 =>
             (pc = "req_guard" /\ ctx'.guardrailStore.lastRequestLength = Len(messages))
       /\ obs'.requestEvals \in {obs.requestEvals, obs.requestEvals + 1, 0}]_vars

\* a state carrying the count of its own history has passed the gate without an
\* evaluation; the next pass, one message later, has evaluated
C35_Witness ==
    /\ opts.guardrails
    /\ obs.input = <<UserMsg("hi")>>
    /\ obs.requestGates = 2
    /\ obs.requestEvals = 1
    /\ obs.engineCalls = 2
    /\ ctx.guardrailStore.lastRequestLength = Len(obs.requestEvaluated)
    /\ Len(obs.requestEvaluated) > 1

-----------------------------------------------------------------------------
(* C36 *)

\* C36: a pass called on the state a successful pass has returned is refused: it calls
\* the engine no further time and leaves messages and summaries as they are
C36_AsStated ==
    [][(/\ call.op = "summarize"
        /\ call.pc = "returned"
        /\ call.outcome = "done"
        /\ call'.passes = call.passes + 1) =>
            /\ call'.outcome = "refused"
            /\ call'.engineCalls = call.engineCalls
            /\ messages' = messages
            /\ summaries' = summaries]_vars

-----------------------------------------------------------------------------
(* C37 *)

\* the k-th position of a set of positions
KthOf(R, k) == CHOOSE i \in R : Cardinality({j \in R : j <= i}) = k

\* the pass has kept the messages of B at the positions R, in their order, has replaced
\* the content of the tool messages among them and nothing else, and has appended the
\* synthetic call and its result
FrameHolds(B, R) ==
    LET n == Cardinality(R) IN
    /\ Len(messages) = n + 2
    /\ \A k \in 1..n :
          LET m == B[KthOf(R, k)] IN
          messages[k] = IF m.role = "tool" THEN [m EXCEPT !.content = Placeholder] ELSE m
    /\ messages[n + 1].role = "assistant"
    /\ Len(messages[n + 1].tool_calls) = 1
    /\ messages[n + 1].tool_calls[1].name = "summarize_context"
    /\ messages[n + 2].role = "tool"
    /\ messages[n + 2].tool_call_id = messages[n + 1].tool_calls[1].id

\* the positions of B that hold no tool message, or a tool message whose id some
\* assistant message of B carries
NotOrphaned(B) ==
    {i \in 1..Len(B) : B[i].role # "tool" \/ B[i].tool_call_id \in AssistantCallIds(B)}

\* the tool message at i answers a call that is pending there: an earlier assistant
\* message carries its id, with no assistant message without tool calls and no tool
\* message of the same id in between
AnswersPending(B, i) ==
    /\ B[i].tool_call_id # 0
    /\ \E j \in 1..(i - 1) :
          /\ B[j].role = "assistant"
          /\ B[i].tool_call_id \in CallIds(B[j].tool_calls)
          /\ \A k \in (j + 1)..(i - 1) :
                /\ ~(B[k].role = "assistant" /\ B[k].tool_calls = <<>>)
                /\ ~(B[k].role = "tool" /\ B[k].tool_call_id = B[i].tool_call_id)

Retained(B) == {i \in 1..Len(B) : B[i].role # "tool" \/ AnswersPending(B, i)}

PassDone == call.op = "summarize" /\ call.pc = "returned" /\ call.outcome = "done"

\* C37 as stated: a successful pass removes only tool messages whose id no assistant
\* message carries, keeps the others in order, changes only the content of tool messages
\* and appends two messages
C37_AsStated ==
    PassDone =>
        \E R \in SUBSET (1..Len(call.before.messages)) :
            /\ NotOrphaned(call.before.messages) \subseteq R
            /\ FrameHolds(call.before.messages, R)

\* C37: a successful pass keeps, in order, every message that is no tool message and
\* every tool message that answers a pending call, removes the other tool messages,
\* changes only the content of the tool messages kept and appends two messages
C37_FrameOfPass == PassDone => FrameHolds(call.before.messages, Retained(call.before.messages))

\* a pass has rewritten a raw tool result and removed a tool message whose id an
\* assistant message carries
C37_Witness ==
    /\ PassDone
    /\ \E i \in NotOrphaned(call.before.messages) \ Retained(call.before.messages) :
          call.before.messages[i].role = "tool"
    /\ \E i \in Retained(call.before.messages) :
          /\ call.before.messages[i].role = "tool"
          /\ call.before.messages[i].content # Placeholder

-----------------------------------------------------------------------------
(* C38 *)

\* C38: a successful pass appends one entry to summaries, the content of the synthetic
\* tool message it appended, and its prompt carried the last entry there was; a refused
\* or failed pass leaves summaries as they were
C38_SummariesLedger ==
    call.op = "summarize" =>
        /\ PassDone =>
              /\ LastMsg(messages).role = "tool"
              /\ summaries = Append(call.before.summaries, LastMsg(messages).content)
              /\ call.previousSummary =
                    (IF call.before.summaries = <<>> THEN ""
                     ELSE call.before.summaries[Len(call.before.summaries)])
        /\ (call.pc = "returned" /\ call.outcome \in {"refused", "failed"}) =>
              summaries = call.before.summaries
        /\ call.pc = "model" => summaries = call.before.summaries

\* a pass on a state with an earlier summary has appended a second entry
C38_Witness ==
    /\ PassDone
    /\ call.before.summaries = <<"earlier">>
    /\ call.previousSummary = "earlier"
    /\ Len(summaries) = 2
    /\ summaries[1] = "earlier"

-----------------------------------------------------------------------------
(* C39 *)

-----------------------------------------------------------------------------
(* C40 *)

\* C40: a run in which neither the engine nor the event sink has failed is not rejected,
\* whatever the onStateChange callback does
C40_AsStated ==
    (smart.pc = "off" /\ obs.engineFailures = 0 /\ obs.sinkFailures = 0) => pc # "rejected"

====
